---- MODULE Spec2Model ----
(***************************************************************************)
(* A model of localstack/utils/cloudformation/template_deployer.py: the    *)
(* reference resolver (resolve_ref, resolve_refs_recursively), the         *)
(* resource-state lookup (retrieve_resource_details), the dependency       *)
(* analysis and the deployment loop (deploy_template).                     *)
(*                                                                         *)
(* Representation.  A Python value is a tagged record: None, a string (a   *)
(* sequence of one-character strings, so that join and replace are         *)
(* computed on characters), a dict, or one of the intrinsic expressions    *)
(* {'Ref': n}, {'Fn::GetAtt': [n, a]}, {'Fn::Join': [sep, parts]},         *)
(* {'Fn::Sub': text} and {'Fn::Sub': [text, map]}.  A raised exception is  *)
(* the value Raise(e): every operator that receives one passes it on,      *)
(* which is how an uncaught Python exception leaves the callers.           *)
(***************************************************************************)
EXTENDS Integers, Sequences, FiniteSets, TLC

VARIABLES
    stack_name,       \* the stack_name argument: None or a string
    region,           \* aws_stack.get_region()
    stack,            \* describe_stacks(StackName)['Stacks'][0], or None
    stack_resources,  \* describe_stack_resource: logical id -> StackResourceDetail
    resource_map,     \* template['Resources']: logical id -> resource
    provider,         \* what exists at the provider: pairs <<kind, identifier>>
    pc,               \* position in deploy_template / in the resolver harness
    i,                \* loop index of deploy_template
    next,             \* deploy_template's "next": the ids of the current ready set
    todo,             \* ids of "next" the deploy loop has not reached yet
    calls,            \* history: the provider calls made so far
    error,            \* the exception that left deploy_template, or None
    value,            \* resolver harness: the expression to resolve
    segs,             \* resolver harness: the segments an Fn::Sub text is made of
    result            \* resolver harness: what resolve_refs_recursively gave

vars == <<stack_name, region, stack, stack_resources, resource_map, provider,
          pc, i, next, todo, calls, error, value, segs, result>>

-----------------------------------------------------------------------------
(* Python values *)

None == [t |-> "none"]

Str(s) == [t |-> "str", s |-> s]

Dict(d) == [t |-> "dict", d |-> d]

Ref(n) == [t |-> "ref", name |-> n]

GetAtt(n, a) == [t |-> "getatt", name |-> n, attr |-> a]

Join(sep, parts) == [t |-> "join", sep |-> sep, parts |-> parts]

Sub(text) == [t |-> "sub", text |-> text]

SubMap(text, subs) == [t |-> "submap", text |-> text, subs |-> subs]

\* a Python list
List(items) == [t |-> "list", items |-> items]

\* True / False
Bool(b) == [t |-> "bool", b |-> b]

\* an int
Number(n) == [t |-> "int", n |-> n]

\* json.dumps(o): a string, kept as the value it was dumped from
Json(o) == [t |-> "json", of |-> o]

Raise(e) == [t |-> "raise", e |-> e]

\* resource['__details__'] when the key was never set
Missing == [t |-> "missing"]

IsRaise(v) == v.t = "raise"

\* Python truthiness of the values the code tests with "not x" / "x or y"
Truthy(v) ==
    CASE v.t = "none" -> FALSE
      [] v.t = "str"  -> v.s # <<>>
      [] v.t = "dict" -> DOMAIN v.d # {}
      [] v.t = "list" -> v.items # <<>>
      [] OTHER        -> TRUE

\* dict.get(key)
Get(dict, key) == IF key \in DOMAIN dict.d THEN dict.d[key] ELSE None

\* x or y
Or(x, y) == IF Truthy(x) THEN x ELSE y

-----------------------------------------------------------------------------
(* Strings as character sequences *)

\* sep.join(strs)
RECURSIVE JoinStr(_, _)
JoinStr(sep, strs) ==
    IF strs = <<>> THEN <<>>
    ELSE IF Len(strs) = 1 THEN strs[1]
    ELSE strs[1] \o sep \o JoinStr(sep, Tail(strs))

\* s.replace(old, new): every non-overlapping occurrence, left to right
RECURSIVE Replace(_, _, _)
Replace(s, old, new) ==
    IF Len(s) < Len(old) THEN s
    ELSE IF SubSeq(s, 1, Len(old)) = old
         THEN new \o Replace(SubSeq(s, Len(old) + 1, Len(s)), old, new)
         ELSE <<s[1]>> \o Replace(Tail(s), old, new)

\* whether pat occurs in s
Contains(s, pat) ==
    \E k \in 1..(Len(s) - Len(pat) + 1) : SubSeq(s, k, k + Len(pat) - 1) = pat

\* str(name) for the names that occur inside strings
Chars(name) ==
    CASE name = "AWS::Region"    -> <<"A","W","S",":",":","R","e","g","i","o","n">>
      [] name = "AWS::Partition" -> <<"A","W","S",":",":","P","a","r","t","i","t","i","o","n">>
      [] name = "AWS::StackName" -> <<"A","W","S",":",":","S","t","a","c","k","N","a","m","e">>
      [] OTHER                   -> <<name>>

\* '${%s}' % key
Placeholder(key) == <<"$", "{">> \o Chars(key) \o <<"}">>

-----------------------------------------------------------------------------
(* Resource types and the registry *)

\* str.split('::', 1) of a type string, kept as its segments:
\* 'AWS::SQS::Queue' is <<"AWS", "SQS", "Queue">>.
T_Queue    == <<"AWS", "SQS", "Queue">>
T_Topic    == <<"AWS", "SNS", "Topic">>
T_Bucket   == <<"AWS", "S3", "Bucket">>
T_Rule     == <<"AWS", "Events", "Rule">>
T_LogGroup == <<"AWS", "Logs", "LogGroup">>
T_Stream   == <<"AWS", "Kinesis", "Stream">>
T_Role     == <<"AWS", "IAM", "Role">>
T_Function == <<"AWS", "Lambda", "Function">>
T_Unknown  == <<"AWS", "Foo", "Bar">>

\* get_resource_type's None (a type string without '::', or no type at all)
NoType == <<>>

\* resources.get(id) or {}: the resource without any key
EmptyResource ==
    [Type |-> NoType, Properties |-> None, DependsOn |-> <<>>, details |-> Missing]

get_resource_type(resource) ==
    IF Len(resource.Type) <= 1 THEN NoType ELSE Tail(resource.Type)

PLACEHOLDER_RESOURCE_NAME == Str(<<"__resource_name__">>)

\* the sources of one argument of a direct mapping table
Prop(name) == [k |-> "prop", name |-> name]
Placeholder_src == [k |-> "placeholder"]
Fn(name) == [k |-> "fn", name |-> name]

\* one step of an action: a direct mapping table or a custom transform
TableStep(function, parameters) ==
    [function |-> function, kind |-> "table", parameters |-> parameters,
     defaults |-> <<>>]
CallableStep(function, transform) ==
    [function |-> function, kind |-> "callable", parameters |-> transform,
     defaults |-> <<>>]
\* a step with 'defaults'
DefaultsStep(function, parameters, defaults) ==
    [function |-> function, kind |-> "table", parameters |-> parameters,
     defaults |-> defaults]

\* The entries of RESOURCE_TO_FUNCTION the model covers: a type with a state
\* lookup and one create step (SQS::Queue, SNS::Topic), one with two create
\* steps (S3::Bucket), one with two create steps and no state lookup
\* (Events::Rule), one without any action (Logs::LogGroup), one whose create
\* step has 'defaults' (Kinesis::Stream), and one whose create step takes its
\* arguments from param_defaults (IAM::Role), and one that can be updated
\* (Lambda::Function).
RESOURCE_TO_FUNCTION ==
    (<<"S3", "Bucket">> :>
        ("create" :> <<
            TableStep("create_bucket", <<
                <<"Bucket", <<Prop("BucketName"), Placeholder_src>> >>,
                <<"ACL", <<Fn("convert_acl_cf_to_s3")>> >>,
                <<"CreateBucketConfiguration", <<Fn("get_bucket_location_config")>> >> >>),
            CallableStep("put_bucket_notification_configuration",
                         "s3_bucket_notification_config") >>
         @@ "delete" :> <<
            TableStep("delete_bucket", << <<"Bucket", <<Prop("PhysicalResourceId")>> >> >>) >>))
    @@ (<<"SQS", "Queue">> :>
        ("create" :> <<
            TableStep("create_queue", <<
                <<"QueueName", <<Prop("QueueName"), Placeholder_src>> >>,
                <<"Attributes", <<Fn("select_attributes")>> >>,
                <<"tags", <<Fn("params_list_to_dict")>> >> >>) >>
         @@ "delete" :> <<
            TableStep("delete_queue", << <<"QueueUrl", <<Prop("PhysicalResourceId")>> >> >>) >>))
    @@ (<<"SNS", "Topic">> :>
        ("create" :> <<
            TableStep("create_topic", <<
                <<"Name", <<Prop("TopicName")>> >>,
                <<"Tags", <<Prop("Tags")>> >> >>) >>
         @@ "delete" :> <<
            TableStep("delete_topic", << <<"TopicArn", <<Prop("PhysicalResourceId")>> >> >>) >>))
    @@ (<<"Logs", "LogGroup">> :> <<>>)
    @@ (<<"Lambda", "Function">> :>
        ("create" :> <<
            DefaultsStep("create_function", <<
                <<"FunctionName", <<Prop("FunctionName")>> >>,
                <<"Runtime", <<Prop("Runtime")>> >>,
                <<"Role", <<Prop("Role")>> >>,
                <<"Handler", <<Prop("Handler")>> >>,
                <<"Code", <<Fn("get_lambda_code_param")>> >>,
                <<"Description", <<Prop("Description")>> >>,
                <<"Environment", <<Prop("Environment")>> >>,
                <<"Timeout", <<Prop("Timeout")>> >>,
                <<"MemorySize", <<Prop("MemorySize")>> >> >>,
                "Role" :> Str(<<"test_role">>)) >>))
    @@ (<<"IAM", "Role">> :>
        ("create" :> << CallableStep("create_role", "param_defaults") >>))
    @@ (<<"Kinesis", "Stream">> :>
        ("create" :> <<
            DefaultsStep("create_stream", <<
                <<"StreamName", <<Prop("Name")>> >>,
                <<"ShardCount", <<Prop("ShardCount")>> >> >>,
                "ShardCount" :> Number(1)) >>
         @@ "delete" :> <<
            TableStep("delete_stream", << <<"StreamName", <<Prop("PhysicalResourceId")>> >> >>) >>))
    @@ (<<"Events", "Rule">> :>
        ("create" :> <<
            TableStep("put_rule", <<
                <<"Name", <<Placeholder_src>> >>,
                <<"ScheduleExpression", <<Prop("ScheduleExpression")>> >>,
                <<"EventPattern", <<Prop("EventPattern")>> >>,
                <<"State", <<Prop("State")>> >>,
                <<"Description", <<Prop("Description")>> >> >>),
            TableStep("put_targets", <<
                <<"Rule", <<Placeholder_src>> >>,
                <<"EventBusName", <<Prop("EventBusName")>> >>,
                <<"Targets", <<Prop("Targets")>> >> >>) >>))

ACTION_CREATE == "create"
ACTION_DELETE == "delete"

is_deployable_resource(resource) ==
    LET resource_type == get_resource_type(resource)
    IN  /\ resource_type \in DOMAIN RESOURCE_TO_FUNCTION
        /\ ACTION_CREATE \in DOMAIN RESOURCE_TO_FUNCTION[resource_type]
        /\ RESOURCE_TO_FUNCTION[resource_type][ACTION_CREATE] # <<>>

-----------------------------------------------------------------------------
(* The collaborators: CloudFormation's own records and the provider *)

\* describe_stack_resource: the StackResourceDetail, or None when the call
\* fails and the exception is swallowed
describe_stack_resource(logical_resource_id) ==
    IF logical_resource_id \in DOMAIN stack_resources
    THEN stack_resources[logical_resource_id]
    ELSE None

\* get_stack_parameter: None when describe_stacks fails or gives no stack,
\* else the value of the first parameter with that key, else None
get_stack_parameter(parameter) ==
    IF stack = None THEN None
    ELSE LET hits == SelectSeq(stack.Parameters, LAMBDA p : p[1] = parameter)
         IN  IF hits = <<>> THEN None ELSE hits[1][2]

\* common.first_char_to_lower on the attribute names of the model
first_char_to_lower(attribute) ==
    CASE attribute = "Arn"                -> "arn"
      [] attribute = "QueueArn"           -> "queueArn"
      [] attribute = "TopicArn"           -> "topicArn"
      [] attribute = "PhysicalResourceId" -> "physicalResourceId"
      [] OTHER                            -> attribute

\* extract_resource_attribute: the branch of Lambda::Function, which reads
\* resource['Configuration'][...] and raises KeyError for an attribute the
\* configuration has not, and the generic branch (the other types of the
\* model have no branch of their own)
extract_resource_attribute(resource_type, resource, attribute) ==
    IF resource_type = <<"Lambda", "Function">>
    THEN IF (IF attribute = "Arn" THEN "FunctionArn" ELSE attribute)
                \in DOMAIN resource.d["Configuration"].d
         THEN resource.d["Configuration"].d[IF attribute = "Arn" THEN "FunctionArn"
                                            ELSE attribute]
         ELSE Raise("KeyError")
    ELSE Or(Get(resource, attribute), Get(resource, first_char_to_lower(attribute)))

\* the ARN the provider gives the resource of a name
ArnOf(name) == Str(<<"a", "r", "n", ":">> \o name)

\* str.lower on the letters of the model's names
Lower(c) ==
    CASE c = "A" -> "a"
      [] c = "B" -> "b"
      [] c = "C" -> "c"
      [] c = "F" -> "f"
      [] c = "P" -> "p"
      [] c = "R" -> "r"
      [] c = "T" -> "t"
      [] OTHER   -> c

LowerStr(s) == [k \in DOMAIN s |-> Lower(s[k])]

\* s3_listener.normalize_bucket_name: (bucket_name or '').lower()
normalize_bucket_name(bucket_name) ==
    IF bucket_name.t # "str" THEN Str(<<>>)
    ELSE Str(LowerStr(bucket_name.s))

-----------------------------------------------------------------------------
(* The reference resolver *)

RECURSIVE resolve_refs_recursively(_)
RECURSIVE retrieve_resource_details(_, _)

\* the name the lookup of a bucket or of a stream resolves before it asks the
\* provider; None for the types whose lookup resolves nothing
looked_up_name(resource, physical_id) ==
    IF resource.Properties.t # "dict" THEN None
    ELSE CASE get_resource_type(resource) = <<"S3", "Bucket">> ->
                 Or(Get(resource.Properties, "BucketName"), physical_id)
           [] get_resource_type(resource) = <<"Kinesis", "Stream">> ->
                 Get(resource.Properties, "Name")
           [] get_resource_type(resource) = <<"IAM", "Role">> ->
                 Or(Get(resource.Properties, "RoleName"), physical_id)
           [] get_resource_type(resource) = <<"Lambda", "Function">> ->
                 IF Get(resource.Properties, "FunctionName").t = "str"
                 THEN Get(resource.Properties, "FunctionName") ELSE None
           [] OTHER -> None

\* what the provider gives for the resource of a type, its physical id being
\* resource_id and name the name its lookup resolved
found_resource(resource_type, resource_props, resource_id, name) ==
    CASE resource_type = <<"SQS", "Queue">> ->
            IF resource_id.t = "str" /\ <<"queue", resource_id.s>> \in provider
            THEN Dict("QueueArn" :> ArnOf(resource_id.s) @@ "Arn" :> ArnOf(resource_id.s))
            ELSE None
      [] resource_type = <<"SNS", "Topic">> ->
            IF resource_id.t = "str" /\ <<"topic", resource_id.s>> \in provider
            THEN Dict("TopicArn" :> resource_id)
            ELSE None
      [] resource_type = <<"S3", "Bucket">> ->
            IF resource_props.t # "dict" THEN None
            ELSE IF /\ <<"bucket", normalize_bucket_name(name).s>> \in provider
                    /\ Truthy(Get(resource_props, "NotificationConfiguration"))
                          => <<"notification", normalize_bucket_name(name).s>> \in provider
            THEN Dict("LocationConstraint" :> Str(region))
            ELSE None
      [] resource_type = <<"Logs", "LogGroup">> -> None
      [] resource_type = <<"IAM", "Role">> ->
            IF resource_props.t # "dict" THEN None
            ELSE IF name.t = "str" /\ <<"role", name.s>> \in provider
            THEN Dict("RoleName" :> name @@ "Arn" :> ArnOf(name.s))
            ELSE None
      \* a function without a FunctionName is looked up under the name just
      \* generated for it, which the provider does not hold
      [] resource_type = <<"Lambda", "Function">> ->
            IF name.t = "str" /\ Truthy(name) /\ <<"function", name.s>> \in provider
            THEN Dict("Configuration" :>
                         Dict("FunctionName" :> name @@ "FunctionArn" :> ArnOf(name.s)))
            ELSE None
      [] resource_type = <<"Kinesis", "Stream">> ->
            IF resource_props.t # "dict" THEN None
            ELSE IF "Name" \notin DOMAIN resource_props.d THEN None
            ELSE IF name.t = "str" /\ <<"stream", name.s>> \in provider
            THEN Dict("StreamDescription" :> Dict("StreamName" :> name))
            ELSE None
      [] OTHER -> None
RECURSIVE resolve_ref(_, _)
RECURSIVE resolve_sub(_, _, _)

\* whether the provider answers the state lookup of a type with an error
\* that is no "not found" (the service cannot be reached, the credentials
\* are refused): the provider holds <<"unavailable", type>>
fetch_fails(resource_type) == <<"unavailable", resource_type>> \in provider

\* whether check_not_found_exception logs its warning: str(e) has none of
\* the markers of "not found"
check_not_found_exception(e) ==
    e.e \notin {"NoSuchBucket", "ResourceNotFound", "404", "not found"}

\* "except Exception as e: check_not_found_exception(...)" and "return None"
\* after it: whatever was raised inside the try block, the lookup gives None
caught(e) == None

\* retrieve_resource_details(resource_id, resource_status, resources, stack_name).
\* The provider holds a queue under the name in its URL, a topic under its
\* ARN, a bucket and its notification configuration under the name of the
\* bucket, and a stream under its name.  Whatever is raised inside the try block
\* is logged and None is returned; resource_status.get in front of the try
\* block is not guarded.
retrieve_resource_details(resource_id, resource_status) ==
    IF resource_status.t # "dict" THEN Raise("AttributeError")
    ELSE IF fetch_fails(get_resource_type(IF resource_id \in DOMAIN resource_map
                                          THEN resource_map[resource_id]
                                          ELSE EmptyResource))
    THEN caught(Raise("ConnectionError"))
    ELSE found_resource(
             get_resource_type(IF resource_id \in DOMAIN resource_map
                               THEN resource_map[resource_id] ELSE EmptyResource),
             IF resource_id \in DOMAIN resource_map
             THEN resource_map[resource_id].Properties ELSE None,
             Or(Get(resource_status, "PhysicalResourceId"), Str(Chars(resource_id))),
             resolve_refs_recursively(
                 looked_up_name(
                     IF resource_id \in DOMAIN resource_map
                     THEN resource_map[resource_id] ELSE EmptyResource,
                     Or(Get(resource_status, "PhysicalResourceId"),
                        Str(Chars(resource_id))))))

\* resolve_ref, from "fetch resource details" on
resolve_ref_details(ref, resource_status, attribute) ==
    LET resource_new == retrieve_resource_details(ref, resource_status)
    IN  IF IsRaise(resource_new) THEN resource_new
        ELSE IF ~Truthy(resource_new) THEN None
        ELSE extract_resource_attribute(get_resource_type(resource_map[ref]),
                                        resource_new, attribute)

\* resolve_ref asking the stack's parameters before the pseudo-parameters
resolve_ref_parameters_first(ref, attribute) ==
    LET stack_param == get_stack_parameter(ref)
    IN  IF stack_param # None THEN stack_param
        ELSE IF ref = "AWS::Region" THEN Str(region)
        ELSE IF ref = "AWS::Partition" THEN Str(<<"a", "w", "s">>)
        ELSE IF ref = "AWS::StackName" THEN stack_name
        ELSE IF Truthy(stack_name)
        THEN LET resource_status == describe_stack_resource(ref)
             IN  IF ~Truthy(resource_status) THEN None
                 ELSE IF Get(resource_status, attribute) \notin {None, Str(<<>>)}
                      THEN Get(resource_status, attribute)
                      ELSE resolve_ref_details(ref, resource_status, attribute)
        ELSE IF ref \in DOMAIN resource_map
        THEN IF resource_map[ref].details = Missing
             THEN Raise("KeyError")
             ELSE resolve_ref_details(ref, resource_map[ref].details, attribute)
        ELSE resolve_ref_details(ref, Dict(<<>>), attribute)

resolve_ref(ref, attribute) ==
    IF ref = "AWS::Region" THEN Str(region)
    ELSE IF ref = "AWS::Partition" THEN Str(<<"a", "w", "s">>)
    ELSE IF ref = "AWS::StackName" THEN stack_name
    ELSE LET stack_param == get_stack_parameter(ref)
         IN  IF stack_param # None THEN stack_param
             ELSE IF Truthy(stack_name)
             THEN LET resource_status == describe_stack_resource(ref)
                  IN  IF ~Truthy(resource_status) THEN None
                      ELSE IF Get(resource_status, attribute) \notin {None, Str(<<>>)}
                           THEN Get(resource_status, attribute)
                           ELSE resolve_ref_details(ref, resource_status, attribute)
             ELSE IF ref \in DOMAIN resource_map
             THEN IF resource_map[ref].details = Missing
                  THEN Raise("KeyError")
                  ELSE resolve_ref_details(ref, resource_map[ref].details, attribute)
             ELSE resolve_ref_details(ref, Dict(<<>>), attribute)

\* s.replace(old, new, 1)
RECURSIVE ReplaceFirst(_, _, _)
ReplaceFirst(s, old, new) ==
    IF Len(s) < Len(old) THEN s
    ELSE IF SubSeq(s, 1, Len(old)) = old
         THEN new \o SubSeq(s, Len(old) + 1, Len(s))
         ELSE <<s[1]>> \o ReplaceFirst(Tail(s), old, new)

\* resolve_sub replacing only the first occurrence of each placeholder
resolve_sub_first_occurrence(text, subs, k) ==
    IF k > Len(subs) THEN Str(text)
    ELSE LET val == resolve_refs_recursively(subs[k][2])
         IN  IF IsRaise(val) THEN val
             ELSE IF val.t # "str" THEN Raise("TypeError")
             ELSE resolve_sub(ReplaceFirst(text, Placeholder(subs[k][1]), val.s), subs, k + 1)

\* resolve_sub leaving the placeholder of a None value in the text
resolve_sub_skip_none(text, subs, k) ==
    IF k > Len(subs) THEN Str(text)
    ELSE LET val == resolve_refs_recursively(subs[k][2])
         IN  IF IsRaise(val) THEN val
             ELSE IF val = None THEN resolve_sub(text, subs, k + 1)
             ELSE IF val.t # "str" THEN Raise("TypeError")
             ELSE resolve_sub(Replace(text, Placeholder(subs[k][1]), val.s), subs, k + 1)

\* the loop of the Fn::Sub branch from entry k of the substitution list on:
\* str.replace raises TypeError unless the resolved value is a string
resolve_sub(text, subs, k) ==
    IF k > Len(subs) THEN Str(text)
    ELSE LET val == resolve_refs_recursively(subs[k][2])
         IN  IF IsRaise(val) THEN val
             ELSE IF val.t # "str" THEN Raise("TypeError")
             ELSE resolve_sub(Replace(text, Placeholder(subs[k][1]), val.s), subs, k + 1)

STATIC_REFS == <<"AWS::Region", "AWS::Partition", "AWS::StackName">>

\* the first exception a sequence of results holds, in order
FirstRaise(vals) ==
    vals[CHOOSE k \in DOMAIN vals :
            IsRaise(vals[k]) /\ \A j \in 1..(k - 1) : ~IsRaise(vals[j])]

\* join_resolved joining the parts that are not None
join_resolved_skip_none(sep, join_values) ==
    IF \E k \in DOMAIN join_values : IsRaise(join_values[k])
    THEN FirstRaise(join_values)
    ELSE LET kept == SelectSeq(join_values, LAMBDA v : v # None)
         IN  Str(JoinStr(sep, [k \in DOMAIN kept |-> kept[k].s]))

\* the Fn::Join branch once the parts are resolved: an exception raised by
\* a part leaves the list comprehension; a None part raises; str.join
\* raises TypeError on a part that is no string
join_resolved(sep, join_values) ==
    IF \E k \in DOMAIN join_values : IsRaise(join_values[k])
    THEN FirstRaise(join_values)
    ELSE IF \E k \in DOMAIN join_values : join_values[k] = None
    THEN Raise("Exception")
    ELSE IF \E k \in DOMAIN join_values : join_values[k].t # "str"
    THEN Raise("TypeError")
    ELSE Str(JoinStr(sep, [k \in DOMAIN join_values |-> join_values[k].s]))

resolve_refs_recursively(v) ==
    CASE v.t = "ref"    -> resolve_ref(v.name, "PhysicalResourceId")
      [] v.t = "getatt" -> resolve_ref(v.name, v.attr)
      [] v.t = "join"   ->
            join_resolved(v.sep, [k \in DOMAIN v.parts |->
                                     resolve_refs_recursively(v.parts[k])])
      [] v.t = "sub"    ->
            resolve_sub(v.text, [k \in DOMAIN STATIC_REFS |->
                                    <<STATIC_REFS[k], Ref(STATIC_REFS[k])>>], 1)
      [] v.t = "submap" -> resolve_sub(v.text, v.subs, 1)
      [] v.t = "dict"   ->
            LET walked == [key \in DOMAIN v.d |-> resolve_refs_recursively(v.d[key])]
            IN  IF \E key \in DOMAIN walked : IsRaise(walked[key])
                THEN walked[CHOOSE key \in DOMAIN walked : IsRaise(walked[key])]
                ELSE Dict(walked)
      [] v.t = "list"   ->
            LET walked == [k \in DOMAIN v.items |-> resolve_refs_recursively(v.items[k])]
            IN  IF \E k \in DOMAIN walked : IsRaise(walked[k])
                THEN FirstRaise(walked)
                ELSE List(walked)
      [] OTHER          -> v

-----------------------------------------------------------------------------
(* What the state lookups leave in the template *)

\* common.short_uid(): one of the identifiers it may draw
short_uids == {<<"u">>, <<"v">>}

\* '{}-lambda-{}'.format(stack_name[:45], common.short_uid())
lambda_name(uid) ==
    Str(SubSeq(stack_name.s, 1, IF Len(stack_name.s) < 45 THEN Len(stack_name.s) ELSE 45)
        \o <<"-", "l", "a", "m", "b", "d", "a", "-">> \o uid)

\* looked_up assigning the generated name whatever the FunctionName is
looked_up_renamed(resource, uid) ==
    IF /\ get_resource_type(resource) = <<"Lambda", "Function">>
       /\ resource.Properties.t = "dict"
       /\ stack_name.t = "str"
    THEN [resource EXCEPT
             !.Properties = Dict(("FunctionName" :> lambda_name(uid)) @@ @.d)]
    ELSE resource

\* The resource as retrieve_resource_details leaves it: the branch of
\* Lambda::Function assigns resource_props['FunctionName'], the FunctionName
\* it has or, when that is missing or empty, a generated one; without
\* Properties or without a stack name the assignment raises, which is caught.
\* The names the other branches resolve are strings or intrinsic functions
\* in the templates, which the resolver replaces and does not change.
looked_up(resource, uid) ==
    IF /\ get_resource_type(resource) = <<"Lambda", "Function">>
       /\ resource.Properties.t = "dict"
       /\ ~Truthy(Get(resource.Properties, "FunctionName"))
       /\ stack_name.t = "str"
    THEN [resource EXCEPT
             !.Properties = Dict(("FunctionName" :> lambda_name(uid)) @@ @.d)]
    ELSE resource

\* whether resolve_ref gets as far as retrieve_resource_details
fetches_ref(ref, attribute) ==
    IF ref \in {"AWS::Region", "AWS::Partition", "AWS::StackName"} THEN FALSE
    ELSE IF get_stack_parameter(ref) # None THEN FALSE
    ELSE IF Truthy(stack_name)
    THEN /\ Truthy(describe_stack_resource(ref))
         /\ Get(describe_stack_resource(ref), attribute) \in {None, Str(<<>>)}
    ELSE ref \in DOMAIN resource_map => resource_map[ref].details # Missing

\* The resources whose state resolve_refs_recursively(v) fetches with
\* retrieve_resource_details.  The items of a list and the parts of a join
\* are resolved in order up to the first that raises; of a dict whose
\* resolution raises, the entry that raised is the only one taken to have
\* been reached.
RECURSIVE fetches(_)
RECURSIVE fetches_in_order(_, _)
fetches_in_order(vals, k) ==
    IF k > Len(vals) THEN {}
    ELSE fetches(vals[k])
            \cup (IF IsRaise(resolve_refs_recursively(vals[k])) THEN {}
                  ELSE fetches_in_order(vals, k + 1))

fetches(v) ==
    CASE v.t = "ref"    -> IF fetches_ref(v.name, "PhysicalResourceId") THEN {v.name} ELSE {}
      [] v.t = "getatt" -> IF fetches_ref(v.name, v.attr) THEN {v.name} ELSE {}
      [] v.t = "join"   -> fetches_in_order(v.parts, 1)
      [] v.t = "submap" -> fetches_in_order([k \in DOMAIN v.subs |-> v.subs[k][2]], 1)
      [] v.t = "list"   -> fetches_in_order(v.items, 1)
      [] v.t = "dict"   ->
            IF \E key \in DOMAIN v.d : IsRaise(resolve_refs_recursively(v.d[key]))
            THEN fetches(v.d[CHOOSE key \in DOMAIN v.d :
                                IsRaise(resolve_refs_recursively(v.d[key]))])
            ELSE UNION {fetches(v.d[key]) : key \in DOMAIN v.d}
      [] OTHER          -> {}

-----------------------------------------------------------------------------
(* Dependency analysis *)

\* json.dumps of a string: the text between quotes, a quote or a backslash
\* of the text escaped
RECURSIVE dumps_escape(_)
dumps_escape(s) ==
    IF s = <<>> THEN <<>>
    ELSE (IF Head(s) \in {"\"", "\\"} THEN <<"\\", Head(s)>> ELSE <<Head(s)>>)
         \o dumps_escape(Tail(s))

dumps_str(s) == <<"\"">> \o dumps_escape(s) \o <<"\"">>

\* ', '.join(texts)
RECURSIVE dumps_items(_)
dumps_items(texts) ==
    IF texts = <<>> THEN <<>>
    ELSE IF Len(texts) = 1 THEN texts[1]
    ELSE texts[1] \o <<",", " ">> \o dumps_items(Tail(texts))

\* the keys of a dict in the order the dict gives them
RECURSIVE dumps_keys(_)
dumps_keys(keys) ==
    IF keys = {} THEN <<>>
    ELSE LET key == CHOOSE k \in keys : TRUE
         IN  <<key>> \o dumps_keys(keys \ {key})

\* '{"key": text}'
dumps_entry(key, text) == dumps_str(<<key>>) \o <<":", " ">> \o text

\* json.dumps(value), character by character (a name is one character)
RECURSIVE dumps(_)
dumps(v) ==
    CASE v.t = "none" -> <<"null">>
      [] v.t = "str"  -> dumps_str(v.s)
      [] v.t = "bool" -> IF v.b THEN <<"true">> ELSE <<"false">>
      [] v.t = "json" -> dumps_str(dumps(v.of))
      [] v.t = "ref"  ->
            <<"{">> \o dumps_entry("Ref", dumps_str(Chars(v.name))) \o <<"}">>
      [] v.t = "getatt" ->
            <<"{">> \o dumps_entry("Fn::GetAtt",
                           <<"[">> \o dumps_items(<<dumps_str(Chars(v.name)),
                                                    dumps_str(<<v.attr>>)>>) \o <<"]">>)
            \o <<"}">>
      [] v.t = "join" ->
            <<"{">> \o dumps_entry("Fn::Join",
                           <<"[">> \o dumps_items(<<dumps_str(v.sep),
                                <<"[">> \o dumps_items([k \in DOMAIN v.parts |->
                                                          dumps(v.parts[k])]) \o <<"]">> >>)
                           \o <<"]">>)
            \o <<"}">>
      [] v.t = "sub" ->
            <<"{">> \o dumps_entry("Fn::Sub", dumps_str(v.text)) \o <<"}">>
      [] v.t = "submap" ->
            <<"{">> \o dumps_entry("Fn::Sub",
                           <<"[">> \o dumps_items(<<dumps_str(v.text),
                                <<"{">> \o dumps_items([k \in DOMAIN v.subs |->
                                            dumps_entry(v.subs[k][1], dumps(v.subs[k][2]))])
                                \o <<"}">> >>)
                           \o <<"]">>)
            \o <<"}">>
      [] v.t = "dict" ->
            LET keys == dumps_keys(DOMAIN v.d)
            IN  <<"{">> \o dumps_items([k \in DOMAIN keys |->
                                           dumps_entry(keys[k], dumps(v.d[keys[k]]))])
                \o <<"}">>
      [] v.t = "list" ->
            <<"[">> \o dumps_items([k \in DOMAIN v.items |-> dumps(v.items[k])]) \o <<"]">>

\* json.dumps(common.json_safe(resource)): the type, the properties, the
\* DependsOn list and, once set, the '__details__' of the resource
dumps_resource(resource) ==
    <<"{">>
    \o dumps_items(
           <<dumps_entry("Type", dumps_str(JoinStr(<<":", ":">>,
                                     [k \in DOMAIN resource.Type |-> <<resource.Type[k]>>]))),
             dumps_entry("Properties", dumps(resource.Properties)),
             dumps_entry("DependsOn",
                         <<"[">> \o dumps_items([k \in DOMAIN resource.DependsOn |->
                                                   dumps_str(Chars(resource.DependsOn[k]))])
                         \o <<"]">>)>>
           \o (IF resource.details = Missing THEN <<>>
               ELSE <<dumps_entry("__details__", dumps(resource.details))>>))
    \o <<"}">>

\* '{"Ref": "%s"}' % other_id
search1(other_id) ==
    <<"{">> \o dumps_str(<<"Ref">>) \o <<":", " ">> \o <<"\"">> \o Chars(other_id)
    \o <<"\"", "}">>

\* '{"Fn::GetAtt": ["%s", ' % other_id
search2(other_id) ==
    <<"{">> \o dumps_str(<<"Fn::GetAtt">>) \o <<":", " ", "[">> \o <<"\"">>
    \o Chars(other_id) \o <<"\"", ",", " ">>

\* the ids of the resources get_resource_dependencies returns: "resource !=
\* other" compares the two resources, not their ids
get_resource_dependencies(resource_id) ==
    LET resource == resource_map[resource_id]
        dumped == dumps_resource(resource)
        dependencies == {resource.DependsOn[k] : k \in DOMAIN resource.DependsOn}
    IN  {other_id \in DOMAIN resource_map :
            /\ resource # resource_map[other_id]
            /\ \/ Contains(dumped, search1(other_id))
               \/ Contains(dumped, search2(other_id))
               \/ other_id \in dependencies}

\* is_deployed: resource.get('__details__') or {} is what the lookup is given
is_deployed(resource_id) ==
    LET details == resource_map[resource_id].details
        resource_status == IF details.t = "dict" THEN details ELSE Dict(<<>>)
    IN  Truthy(retrieve_resource_details(resource_id, resource_status))

\* all_dependencies_satisfied ignoring the dependencies altogether
all_dependencies_satisfied_none(res_deps) == TRUE

\* all_dependencies_satisfied asking of every dependency that it is deployed
all_dependencies_satisfied_every(res_deps) ==
    \A resource_id \in res_deps : is_deployed(resource_id)

all_dependencies_satisfied(res_deps) ==
    \A resource_id \in res_deps :
        is_deployable_resource(resource_map[resource_id]) => is_deployed(resource_id)

all_resource_dependencies_satisfied(resource_id) ==
    all_dependencies_satisfied(get_resource_dependencies(resource_id))

\* should_be_deployed without the test of is_deployed
should_be_deployed_again(resource_id) ==
    /\ is_deployable_resource(resource_map[resource_id])
    /\ all_resource_dependencies_satisfied(resource_id)

should_be_deployed(resource_id) ==
    IF \/ ~is_deployable_resource(resource_map[resource_id])
       \/ is_deployed(resource_id)
    THEN FALSE
    ELSE all_resource_dependencies_satisfied(resource_id)

\* resources_to_deploy_next taking every deployable resource
resources_to_deploy_next_all ==
    {resource_id \in DOMAIN resource_map :
        is_deployable_resource(resource_map[resource_id])}

resources_to_deploy_next ==
    {resource_id \in DOMAIN resource_map : should_be_deployed(resource_id)}

-----------------------------------------------------------------------------
(* The parameter pipeline *)

str_or_none(o) ==
    IF o = None THEN None
    ELSE IF o.t \in {"dict", "list"} THEN Json(o)
    ELSE o

select_attributes(obj, attrs) ==
    Dict([attr \in {a \in attrs : Get(obj, a) # None} |-> str_or_none(Get(obj, attr))])

get_bucket_location_config == Dict("LocationConstraint" :> Str(region))

\* the closure params_list_to_dict returns: the entries of params[param_name]
\* as a dict, a later entry replacing an earlier one of the same key
params_list_to_dict(params, param_name, key_attr_name, value_attr_name) ==
    LET entries == IF param_name \in DOMAIN params.d
                   THEN params.d[param_name].items ELSE <<>>
        last(key) == CHOOSE k \in DOMAIN entries :
                        /\ entries[k].d[key_attr_name] = key
                        /\ \A j \in DOMAIN entries :
                              entries[j].d[key_attr_name] = key => j <= k
    IN  Dict([key \in {entries[k].d[key_attr_name] : k \in DOMAIN entries}
                 |-> entries[last(key)].d[value_attr_name]])

\* re.sub('(?<!^)(?=[A-Z])', '-', acl).lower()
RECURSIVE convert_acl_cf_to_s3_from(_, _)
convert_acl_cf_to_s3_from(acl, k) ==
    IF k > Len(acl) THEN <<>>
    ELSE (IF k > 1 /\ Lower(acl[k]) # acl[k] THEN <<"-">> ELSE <<>>)
         \o <<Lower(acl[k])>> \o convert_acl_cf_to_s3_from(acl, k + 1)

convert_acl_cf_to_s3(acl) == Str(convert_acl_cf_to_s3_from(acl.s, 1))

\* the configurations of one kind in s3_bucket_notification_config
notification_entries(notif_config, configs_key, arn_key, target_key) ==
    LET configs == Or(Get(notif_config, configs_key), List(<<>>))
    IN  List([k \in DOMAIN configs.items |->
                LET config == configs.items[k]
                    filter_rules == Get(Or(Get(Or(Get(config, "Filter"), Dict(<<>>)),
                                               "S3Key"), Dict(<<>>)), "Rules")
                    entry == arn_key :> config.d[target_key]
                             @@ "Events" :> List(<<config.d["Event"]>>)
                IN  IF Truthy(filter_rules)
                    THEN Dict(entry @@ "Filter" :>
                                 Dict("Key" :> Dict("FilterRules" :> filter_rules)))
                    ELSE Dict(entry)])

s3_bucket_notification_config(params) ==
    LET notif_config == Get(params, "NotificationConfiguration")
    IN  IF ~Truthy(notif_config) THEN None
        ELSE Dict("Bucket" :> Or(Get(params, "BucketName"), PLACEHOLDER_RESOURCE_NAME)
                  @@ "NotificationConfiguration" :> Dict(
                        "LambdaFunctionConfigurations" :>
                            notification_entries(notif_config, "LambdaConfigurations",
                                                 "LambdaFunctionArn", "Function")
                        @@ "QueueConfigurations" :>
                            notification_entries(notif_config, "QueueConfigurations",
                                                 "QueueArn", "Queue")
                        @@ "TopicConfigurations" :>
                            notification_entries(notif_config, "TopicConfigurations",
                                                 "TopicArn", "Topic")))

select_parameters(params, param_names) ==
    Dict([k \in DOMAIN params.d \cap param_names |-> params.d[k]])

\* the closure dump_json_params returns, applied to what param_func gave
dump_json_params(selected, param_names) ==
    Dict([k \in DOMAIN selected.d |->
            IF k \in param_names /\ selected.d[k].t \in {"dict", "list"}
            THEN Json(selected.d[k])
            ELSE selected.d[k]])

\* param_defaults giving every key of defaults its default
param_defaults_always(selected, defaults) ==
    Dict([key \in DOMAIN selected.d \cup DOMAIN defaults |->
            IF key \in DOMAIN defaults THEN defaults[key] ELSE selected.d[key]])

\* the closure param_defaults returns, applied to what param_func gave
param_defaults(selected, defaults) ==
    Dict([key \in DOMAIN selected.d \cup DOMAIN defaults |->
            IF key \in DOMAIN defaults /\ Get(selected, key) \in {Str(<<>>), None}
            THEN defaults[key]
            ELSE selected.d[key]])

\* the defaults of the arguments of IAM::Role's create step
RoleDefaults == "RoleName" :> PLACEHOLDER_RESOURCE_NAME

\* the callables of the registry, by the names the table of the model gives them
call_transform(name, resource_props) ==
    CASE name = "convert_acl_cf_to_s3" ->
            convert_acl_cf_to_s3(IF "AccessControl" \in DOMAIN resource_props.d
                                 THEN resource_props.d["AccessControl"]
                                 ELSE Str(<<"P","u","b","l","i","c","R","e","a","d">>))
      [] name = "get_bucket_location_config" -> get_bucket_location_config
      \* get_lambda_code_param: params.get('Code', {}); no Code of the
      \* templates holds a ZipFile for it to pack
      [] name = "get_lambda_code_param" ->
            IF "Code" \in DOMAIN resource_props.d THEN resource_props.d["Code"]
            ELSE Dict(<<>>)
      [] name = "select_attributes" ->
            select_attributes(resource_props,
                              {"DelaySeconds", "MaximumMessageSize", "MessageRetentionPeriod",
                               "VisibilityTimeout", "RedrivePolicy"})
      [] name = "params_list_to_dict" ->
            params_list_to_dict(resource_props, "Tags", "Key", "Value")
      [] name = "s3_bucket_notification_config" ->
            s3_bucket_notification_config(resource_props)
      [] name = "param_defaults" ->
            param_defaults(
                dump_json_params(
                    select_parameters(resource_props,
                                      {"Path", "RoleName", "AssumeRolePolicyDocument",
                                       "Description", "MaxSessionDuration",
                                       "PermissionsBoundary", "Tags"}),
                    {"AssumeRolePolicyDocument"}),
                RoleDefaults)

get_resource_name(resource) ==
    LET res_type == get_resource_type(resource)
        properties == Or(resource.Properties, Dict(<<>>))
        name == Get(properties, "Name")
    IN  IF Truthy(name) THEN name
        ELSE CASE res_type = <<"S3", "Bucket">> ->
                    normalize_bucket_name(Get(properties, "BucketName"))
               [] res_type = <<"SQS", "Queue">> -> Get(properties, "QueueName")
               [] res_type = <<"IAM", "Role">> -> Get(properties, "RoleName")
               [] OTHER -> name

\* the loop over the sources of one argument of a mapping table: the
\* placeholder is kept unless a later source has a value, and the first
\* source with a value ends the loop
RECURSIVE select_param(_, _, _)

\* select_param without the break: a later source with a value replaces an
\* earlier one
select_param_no_break(resource_props, prop_keys, current) ==
    IF prop_keys = <<>> THEN current
    ELSE LET prop_key == Head(prop_keys)
         IN  IF prop_key = Placeholder_src
             THEN select_param(resource_props, Tail(prop_keys), PLACEHOLDER_RESOURCE_NAME)
             ELSE LET prop_value == IF prop_key.k = "fn"
                                    THEN call_transform(prop_key.name, resource_props)
                                    ELSE Get(resource_props, prop_key.name)
                  IN  IF prop_value # None
                      THEN select_param(resource_props, Tail(prop_keys), prop_value)
                      ELSE select_param(resource_props, Tail(prop_keys), current)

select_param(resource_props, prop_keys, current) ==
    IF prop_keys = <<>> THEN current
    ELSE LET prop_key == Head(prop_keys)
         IN  IF prop_key = Placeholder_src
             THEN select_param(resource_props, Tail(prop_keys), PLACEHOLDER_RESOURCE_NAME)
             ELSE LET prop_value == IF prop_key.k = "fn"
                                    THEN call_transform(prop_key.name, resource_props)
                                    ELSE Get(resource_props, prop_key.name)
                  IN  IF prop_value # None THEN prop_value
                      ELSE select_param(resource_props, Tail(prop_keys), current)

\* configure_resource_via_sdk, source selection: None when a custom
\* transform says so, else the argument map
select_params(func_details, resource_props) ==
    IF func_details.kind = "callable"
    THEN call_transform(func_details.parameters, resource_props)
    ELSE LET parameters == func_details.parameters
             selected == [k \in DOMAIN parameters |->
                             select_param(resource_props, parameters[k][2], Missing)]
         IN  Dict([param_key \in {parameters[k][1] :
                                     k \in {j \in DOMAIN parameters : selected[j] # Missing}}
                      |-> selected[CHOOSE k \in DOMAIN parameters :
                                      parameters[k][1] = param_key]])

\* common.recurse_object(params, fix_placeholders)
RECURSIVE fix_placeholders(_, _)
fix_placeholders(o, resource_name) ==
    CASE o.t = "dict" ->
            Dict([k \in DOMAIN o.d |->
                    IF o.d[k] = PLACEHOLDER_RESOURCE_NAME THEN resource_name
                    ELSE fix_placeholders(o.d[k], resource_name)])
      [] o.t = "list" ->
            List([k \in DOMAIN o.items |-> fix_placeholders(o.items[k], resource_name)])
      [] OTHER -> o

\* str(param_value).lower() in ['true', 'false']
is_boolean_string(param_value) ==
    \/ param_value.t = "bool"
    \/ /\ param_value.t = "str"
       /\ LowerStr(param_value.s) \in {<<"t","r","u","e">>, <<"f","a","l","s","e">>}

\* "convert refs and boolean strings", the second half of the loop body:
\* an exception of the resolver leaves the loop
convert_boolean_strings(resolved) ==
    IF \E k \in DOMAIN resolved : IsRaise(resolved[k])
    THEN resolved[CHOOSE k \in DOMAIN resolved : IsRaise(resolved[k])]
    ELSE Dict([k \in DOMAIN resolved |->
                 IF is_boolean_string(resolved[k])
                 THEN Bool(IF resolved[k].t = "bool" THEN resolved[k].b
                           ELSE LowerStr(resolved[k].s) = <<"t","r","u","e">>)
                 ELSE resolved[k]])

\* "convert refs and boolean strings": every argument that is not None is
\* resolved
resolve_params(params) ==
    convert_boolean_strings([k \in DOMAIN params.d |->
                                IF params.d[k] = None THEN None
                                ELSE resolve_refs_recursively(params.d[k])])

\* remove_none_values looking at the entries of the outermost dict only
remove_none_values_shallow(o) ==
    IF o.t = "dict"
    THEN Dict([k \in {key \in DOMAIN o.d : o.d[key] # None} |-> o.d[k]])
    ELSE o

RECURSIVE remove_none_values(_)
remove_none_values(o) ==
    CASE o.t = "dict" ->
            Dict([k \in {key \in DOMAIN o.d : o.d[key] # None} |->
                    remove_none_values(o.d[k])])
      [] o.t = "list" ->
            List([k \in DOMAIN o.items |-> remove_none_values(o.items[k])])
      [] OTHER -> o

\* configure_resource_via_sdk from "if params is None: return" up to the
\* provider call: None when the step is skipped, the exception of the
\* resolver, or the arguments without their None values.  No entry of the
\* table has 'types'; the strings of the model hold no account id for
\* fix_account_id_in_arns to rewrite.
strip_params(resolved) ==
    IF IsRaise(resolved) THEN resolved ELSE remove_none_values(resolved)

\* finish_params removing the None values before the references are resolved
finish_params_strip_first(params) ==
    IF params = None THEN None ELSE resolve_params(remove_none_values(params))

finish_params(params) ==
    IF params = None THEN None ELSE strip_params(resolve_params(params))

\* common.merge_recursive(defaults, params), "assign default values if
\* empty": a default is given to every argument that is absent, None or ''
merge_recursive(defaults, params) ==
    IF params = None THEN None
    ELSE Dict([key \in DOMAIN params.d \cup DOMAIN defaults |->
                 IF /\ key \in DOMAIN defaults
                    /\ \/ key \notin DOMAIN params.d
                       \/ params.d[key] \in {None, Str(<<>>)}
                 THEN defaults[key]
                 ELSE params.d[key]])

\* defaults = func_details.get('defaults', {}); params = merge_recursive(..)
assign_defaults(func_details, params) ==
    merge_recursive(func_details.defaults, params)

\* how often fix_placeholders finds the placeholder: as the value of an
\* entry of a dict, at any depth
RECURSIVE placeholders(_)
RECURSIVE placeholders_sum(_, _, _)
placeholders_sum(vals, k, entries) ==
    IF k > Len(vals) THEN 0
    ELSE (IF entries /\ vals[k] = PLACEHOLDER_RESOURCE_NAME THEN 1
          ELSE placeholders(vals[k]))
         + placeholders_sum(vals, k + 1, entries)
placeholders(o) ==
    CASE o.t = "dict" ->
            LET keys == dumps_keys(DOMAIN o.d)
            IN  placeholders_sum([k \in DOMAIN keys |-> o.d[keys[k]]], 1, TRUE)
      [] o.t = "list" -> placeholders_sum(o.items, 1, FALSE)
      [] OTHER -> 0

\* how often fix_placeholders evaluates get_resource_name(resource) in one
\* call of configure_resource_via_sdk: resource_name_holder keeps the value
\* of the first evaluation
name_evaluations(params) == IF placeholders(params) > 0 THEN 1 ELSE 0

\* the property an argument of a mapping table takes its value from: the
\* first source that has a value when that source is a property, else ""
RECURSIVE selected_property(_, _)
selected_property(resource_props, prop_keys) ==
    IF prop_keys = <<>> THEN ""
    ELSE LET prop_key == Head(prop_keys)
         IN  IF prop_key = Placeholder_src
             THEN selected_property(resource_props, Tail(prop_keys))
             ELSE IF prop_key.k = "fn"
             THEN IF call_transform(prop_key.name, resource_props) # None THEN ""
                  ELSE selected_property(resource_props, Tail(prop_keys))
             ELSE IF Get(resource_props, prop_key.name) # None THEN prop_key.name
             ELSE selected_property(resource_props, Tail(prop_keys))

\* The object a dict or a list is after resolve_refs_recursively walked it:
\* the walk assigns every resolved entry to the object itself.  When an entry
\* raises, a list keeps the entries resolved before it; in a dict the entry
\* that raised is the only one taken to have been reached (the dicts of the
\* templates hold one entry that is not a literal).  The other values are new
\* objects and the expression they were computed from is left as it was.
RECURSIVE resolved_in_place(_)

\* the entries of a dict or the items of a list
children(v) == IF v.t = "dict" THEN v.d ELSE v.items

\* the index of the entry whose resolution raised
raised_child(v, walked) ==
    IF v.t = "dict" THEN CHOOSE key \in DOMAIN walked : IsRaise(walked[key])
    ELSE CHOOSE k \in DOMAIN walked :
            IsRaise(walked[k]) /\ \A j \in 1..(k - 1) : ~IsRaise(walked[j])

\* the entries of the object after the walk, walked being what the
\* resolution of each entry gave or raised
walked_in_place(v, walked) ==
    IF \A k \in DOMAIN walked : ~IsRaise(walked[k]) THEN walked
    ELSE [k \in DOMAIN walked |->
             IF k = raised_child(v, walked) THEN resolved_in_place(children(v)[k])
             ELSE IF v.t = "list" /\ k < raised_child(v, walked) THEN walked[k]
             ELSE children(v)[k]]

\* a dict or a list of the given entries, as v is one
rebuilt(v, entries) == IF v.t = "dict" THEN Dict(entries) ELSE List(entries)

resolved_in_place(v) ==
    IF v.t \notin {"dict", "list"} THEN v
    ELSE rebuilt(v, walked_in_place(v, [k \in DOMAIN children(v) |->
                                          resolve_refs_recursively(children(v)[k])]))

\* The properties of the resource after "convert refs and boolean strings"
\* went through the arguments of a mapping table from argument k on: an
\* argument taken from a property is that property's own object, which the
\* resolver changes in place; the loop ends at the first argument that raises.
RECURSIVE props_resolved_from(_, _, _, _)

\* the properties once the resolver has walked the property of a name
with_resolved(resource_props, name) ==
    Dict([resource_props.d EXCEPT ![name] = resolved_in_place(@)])

\* the loop after argument k, which raised or not and left the properties
props_resolved_next(parameters, k, params, raised, resource_props) ==
    IF raised THEN resource_props
    ELSE props_resolved_from(parameters, k + 1, params, resource_props)

\* argument k, whose value is the property of a name ("" when it is none)
props_resolved_at(parameters, k, params, name, resource_props) ==
    props_resolved_next(
        parameters, k, params,
        IsRaise(resolve_refs_recursively(params.d[parameters[k][1]])),
        IF name = "" THEN resource_props
        ELSE IF resource_props.d[name] # params.d[parameters[k][1]] THEN resource_props
        ELSE with_resolved(resource_props, name))

props_resolved_from(parameters, k, params, resource_props) ==
    IF k > Len(parameters) THEN resource_props
    ELSE IF parameters[k][1] \notin DOMAIN params.d
    THEN props_resolved_from(parameters, k + 1, params, resource_props)
    ELSE IF params.d[parameters[k][1]] = None
    THEN props_resolved_from(parameters, k + 1, params, resource_props)
    ELSE props_resolved_at(parameters, k, params,
                           selected_property(resource_props, parameters[k][2]),
                           resource_props)

\* the resource with the properties the steps before left
resource_with(resource_id, resource_props) ==
    [resource_map[resource_id] EXCEPT !.Properties = resource_props]

\* configure_resource_via_sdk up to "if params is None: return": source
\* selection, the placeholders, the defaults
prepared_params(resource, resource_id, func_details) ==
    IF resource.Properties.t # "dict" THEN Raise("AttributeError")
    ELSE assign_defaults(func_details,
             fix_placeholders(select_params(func_details, resource.Properties),
                              Or(get_resource_name(resource), Str(Chars(resource_id)))))

\* configure_resource_via_sdk from there up to the provider call: the
\* arguments of the call, None when the step is skipped, or the exception
\* raised on the way
requested(prepared) ==
    IF IsRaise(prepared) THEN prepared ELSE finish_params(prepared)

\* configure_resource_via_sdk up to the provider call
request_params(resource_id, func_details, resource_props) ==
    requested(prepared_params(resource_with(resource_id, resource_props),
                              resource_id, func_details))

\* the properties of the resource after the step
props_after_step(func_details, prepared, resource_props) ==
    IF func_details.kind # "table" \/ prepared.t # "dict" THEN resource_props
    ELSE props_resolved_from(func_details.parameters, 1, prepared, resource_props)

\* The provider call function(**params).  The call registers the resource
\* under the name its arguments carry, or removes it; a call without that
\* name as a string is rejected.
name_argument(function) ==
    CASE function = "create_queue"  -> "QueueName"
      [] function = "create_topic"  -> "Name"
      [] function = "create_bucket" -> "Bucket"
      [] function = "put_rule"      -> "Name"
      [] function = "put_targets"   -> "Rule"
      [] function = "put_bucket_notification_configuration" -> "Bucket"
      [] function = "create_stream" -> "StreamName"
      [] function = "create_role"   -> "RoleName"
      [] function = "create_function" -> "FunctionName"
      [] function = "delete_queue"  -> "QueueUrl"
      [] function = "delete_topic"  -> "TopicArn"
      [] function = "delete_bucket" -> "Bucket"
      [] function = "delete_stream" -> "StreamName"

accepted(function, params) ==
    Get(params, name_argument(function)).t = "str"

\* a provider that registers nothing
created_nothing(function, params) == {}

created(function, params) ==
    LET name == Get(params, name_argument(function)).s
    IN  CASE function = "create_queue"  -> {<<"queue", name>>}
          [] function = "create_topic"  -> {<<"topic", ArnOf(name).s>>}
          [] function = "create_bucket" -> {<<"bucket", name>>}
          [] function = "put_rule"      -> {<<"rule", name>>}
          [] function = "put_bucket_notification_configuration" ->
                {<<"notification", name>>}
          [] function = "create_stream" -> {<<"stream", name>>}
          [] function = "create_role"   -> {<<"role", name>>}
          [] function = "create_function" -> {<<"function", name>>}
          [] OTHER -> {}

\* what a delete call removes at the provider
deleted(function, params) ==
    LET name == Get(params, name_argument(function)).s
    IN  CASE function = "delete_queue"  -> {<<"queue", name>>}
          [] function = "delete_topic"  -> {<<"topic", name>>}
          [] function = "delete_bucket" -> {<<"bucket", name>>, <<"notification", name>>}
          [] function = "delete_stream" -> {<<"stream", name>>}
          [] OTHER -> {}

\* which call of step k for the resource this is within the pass i of the loop
attempt(resource_id, k, run) ==
    1 + Cardinality({c \in run.calls : c.id = resource_id /\ c.iter = i /\ c.step = k})

\* the entry of the history for the provider call of a step
call_record(resource_id, func, k, ok, params, run) ==
    [id |-> resource_id, function |-> func.function, iter |-> i, step |-> k,
     ok |-> ok, attempt |-> attempt(resource_id, k, run),
     names |-> IF run.props.t # "dict" THEN 0
               ELSE name_evaluations(select_params(func, run.props)),
     params |-> params]

\* "some resources have attached/nested resources which we need to create
\* recursively now": the tags of a bucket (the templates hold no
\* ApiGateway::Method and no topic with a Subscription)
post_calls(resource_id, func, k, params, run) ==
    IF /\ get_resource_type(resource_map[resource_id]) = <<"S3", "Bucket">>
       /\ Truthy(Get(run.props, "Tags"))
    THEN {[id |-> resource_id, function |-> "put_bucket_tagging", iter |-> i,
           step |-> k, ok |-> TRUE, attempt |-> 1, names |-> 0,
           params |-> Dict("Bucket" :> Get(params, "Bucket")
                           @@ "Tagging" :> Dict("TagSet" :> Get(run.props, "Tags")))]}
    ELSE {}

\* the provider call made and recorded: what it registers or removes and
\* the post-actions when it succeeds, its exception when it fails
called(func, params, record, posts, run) ==
    IF record.ok
    THEN [run EXCEPT
             !.provider = (run.provider \cup created(func.function, params))
                              \ deleted(func.function, params),
             !.calls = run.calls \cup {record} \cup posts]
    ELSE [run EXCEPT
             !.calls = run.calls \cup {record},
             !.error = Raise("ProviderCallError")]

\* called, the exception of the provider call caught
called_swallow(func, params, record, posts, run) ==
    IF record.ok
    THEN [run EXCEPT
             !.provider = (run.provider \cup created(func.function, params))
                              \ deleted(func.function, params),
             !.calls = run.calls \cup {record} \cup posts]
    ELSE [run EXCEPT !.calls = run.calls \cup {record}]

\* run_step catching the exception of the provider call
run_step_swallow(resource_id, func, k, ok, params, run) ==
    IF IsRaise(params) THEN [run EXCEPT !.error = params]
    ELSE IF params = None THEN run
    ELSE called_swallow(func, params,
                        call_record(resource_id, func, k,
                                    ok /\ accepted(func.function, params), params, run),
                        post_calls(resource_id, func, k, params, run), run)

\* run_step catching the exception of the resolver
run_step_skip_unresolved(resource_id, func, k, ok, params, run) ==
    IF IsRaise(params) \/ params = None THEN run
    ELSE called(func, params,
                call_record(resource_id, func, k,
                            ok /\ accepted(func.function, params), params, run),
                post_calls(resource_id, func, k, params, run), run)

\* run_step taking a skipped step for a failure
run_step_skip_raises(resource_id, func, k, ok, params, run) ==
    IF IsRaise(params) THEN [run EXCEPT !.error = params]
    ELSE IF params = None THEN [run EXCEPT !.error = Raise("TypeError")]
    ELSE called(func, params,
                call_record(resource_id, func, k,
                            ok /\ accepted(func.function, params), params, run),
                post_calls(resource_id, func, k, params, run), run)

\* One step of execute_resource_action, given its arguments.  run is what
\* the steps before left: the provider, the history of calls, the exception
\* raised, if any, and the properties of the resource.  ok tells whether the
\* provider lets the call succeed.
run_step(resource_id, func, k, ok, params, run) ==
    IF IsRaise(params) THEN [run EXCEPT !.error = params]
    ELSE IF params = None THEN run
    ELSE called(func, params,
                call_record(resource_id, func, k,
                            ok /\ accepted(func.function, params), params, run),
                post_calls(resource_id, func, k, params, run), run)

\* what "convert refs and boolean strings" fetches: nothing when the step
\* raised or returned before it
fetched_by(prepared) ==
    IF prepared.t # "dict" THEN {} ELSE fetches(prepared)

\* what a step leaves, with the properties as the resolver left them and the
\* resources whose state it fetched
step_done(after, props, fetched) ==
    [after EXCEPT !.props = props, !.fetched = @ \cup fetched]

\* configure_resource_via_sdk for step k, prepared being its arguments
\* before they are resolved
configured(resource_id, func, k, ok, prepared, run) ==
    step_done(run_step(resource_id, func, k, ok, requested(prepared), run),
              props_after_step(func, prepared, run.props),
              fetched_by(prepared))

\* the loop over func_details of execute_resource_action from step k on
RECURSIVE run_steps(_, _, _, _, _)
run_steps(resource_id, func_details, oks, k, run) ==
    IF k > Len(func_details) \/ run.error # None THEN run
    ELSE run_steps(resource_id, func_details, oks, k + 1,
                   configured(resource_id, func_details[k], k, oks[k],
                              prepared_params(resource_with(resource_id, run.props),
                                              resource_id, func_details[k]),
                              run))

\* the steps of an action of a resource; none where execute_resource_action
\* returns at once: the type is not in RESOURCE_TO_FUNCTION, or its entry
\* has not the action
action_steps(resource, action_name) ==
    IF get_resource_type(resource) \notin DOMAIN RESOURCE_TO_FUNCTION THEN <<>>
    ELSE IF action_name \notin DOMAIN RESOURCE_TO_FUNCTION[get_resource_type(resource)]
    THEN <<>>
    ELSE RESOURCE_TO_FUNCTION[get_resource_type(resource)][action_name]

\* execute_resource_action raising for what is not implemented
execute_resource_action_raises(resource_id, action_name, oks, run) ==
    IF action_steps(resource_map[resource_id], action_name) = <<>>
    THEN [run EXCEPT !.error = Raise("Exception")]
    ELSE run_steps(resource_id, action_steps(resource_map[resource_id], action_name),
                   oks, 1, run)

execute_resource_action(resource_id, action_name, oks, run) ==
    IF action_steps(resource_map[resource_id], action_name) = <<>>
    THEN run
    ELSE run_steps(resource_id, action_steps(resource_map[resource_id], action_name),
                   oks, 1, run)

-----------------------------------------------------------------------------
(* The update path *)

\* UPDATEABLE_RESOURCES, as get_resource_type gives the types
UPDATEABLE_RESOURCES == {<<"Lambda", "Function">>, <<"ApiGateway", "Method">>}

\* is_updateable without asking whether the resource is deployed
is_updateable_undeployed(resource_id) ==
    /\ is_deployable_resource(resource_map[resource_id])
    /\ get_resource_type(resource_map[resource_id]) \in UPDATEABLE_RESOURCES

is_updateable(resource_id) ==
    /\ is_deployable_resource(resource_map[resource_id])
    /\ is_deployed(resource_id)
    /\ get_resource_type(resource_map[resource_id]) \in UPDATEABLE_RESOURCES

\* the keys of the properties update_function_configuration is given
update_keys ==
    {"FunctionName", "Role", "Handler", "Description", "Timeout", "MemorySize",
     "Environment", "Runtime"}

\* the entry of the history for a provider call of update_resource; the
\* provider raises for a function it does not hold
update_call(resource_id, function, k, ok, params, run) ==
    [id |-> resource_id, function |-> function, iter |-> i, step |-> k,
     ok |-> /\ ok
            /\ Get(params, "FunctionName").t = "str"
            /\ <<"function", Get(params, "FunctionName").s>> \in run.provider,
     attempt |-> 1, names |-> 0, params |-> params]

\* a provider call of update_resource made and recorded; its exception
\* leaves update_resource
updated(record, run) ==
    IF record.ok THEN [run EXCEPT !.calls = @ \cup {record}]
    ELSE [run EXCEPT !.calls = @ \cup {record}, !.error = Raise("ProviderCallError")]

\* update_resource for a Lambda::Function from update_function_configuration
\* on, update_props being the resolved properties
update_configuration(resource_id, ok, update_props, run) ==
    IF run.error # None THEN run
    ELSE IF IsRaise(update_props) THEN [run EXCEPT !.error = update_props]
    ELSE updated(update_call(resource_id, "update_function_configuration", 2, ok,
                             update_props, run), run)

\* "if 'Code' in props: client.update_function_code(...)": props['FunctionName']
\* raises KeyError when the function has no FunctionName
update_code(resource_id, ok, props, update_props, run) ==
    IF IsRaise(update_props) THEN [run EXCEPT !.error = update_props]
    ELSE IF "Code" \notin DOMAIN props.d THEN run
    ELSE IF "FunctionName" \notin DOMAIN props.d
    THEN [run EXCEPT !.error = Raise("KeyError")]
    ELSE updated(update_call(resource_id, "update_function_code", 1, ok,
                             Dict(("FunctionName" :> props.d["FunctionName"])
                                  @@ props.d["Code"].d), run), run)

\* update_resource(resource_id, resources, stack_name): nothing for a type
\* that is not in UPDATEABLE_RESOURCES; for a Lambda::Function the code and
\* the configuration are updated (the templates hold no ApiGateway::Method).
\* Whether the resource is deployed is not asked.
update_resource(resource_id, oks, run) ==
    IF get_resource_type(resource_map[resource_id]) \notin UPDATEABLE_RESOURCES
    THEN run
    ELSE IF run.props.t # "dict" THEN [run EXCEPT !.error = Raise("TypeError")]
    ELSE update_configuration(
             resource_id, oks[2],
             resolve_refs_recursively(
                 Dict([k \in DOMAIN run.props.d \cap update_keys |-> run.props.d[k]])),
             update_code(resource_id, oks[1], run.props,
                         resolve_refs_recursively(
                             Dict([k \in DOMAIN run.props.d \cap update_keys |->
                                      run.props.d[k]])),
                         run))

-----------------------------------------------------------------------------
(* The inputs of the resolver harness *)

MaxParts == 2
MaxSegs == 2

SeqsUpTo(S, n) == UNION {[1..k -> S] : k \in 1..n}

s_st == <<"s", "t">>
s_us_east_1 == <<"u", "s", "-", "e", "a", "s", "t", "-", "1">>
s_a1 == <<"a", "1">>
s_b1 == <<"b", "1">>
s_pv == <<"p", "v">>
s_x == <<"x">>
s_dash == <<"-">>
s_arn == <<"a", "r", "n", ":">>
s_s3 == <<":", "s", "3", ":", ":", ":">>
s_bucket == <<"-", "b", "u", "c", "k", "e", "t">>

\* a text is built from segments: literal text, or the placeholder of a name
Lit(s) == [seg |-> "lit", s |-> s]
Ph(name) == [seg |-> "ph", name |-> name]
SegChars(g) == IF g.seg = "lit" THEN g.s ELSE Placeholder(g.name)
RECURSIVE Flat(_)
Flat(gs) == IF gs = <<>> THEN <<>> ELSE SegChars(Head(gs)) \o Flat(Tail(gs))

\* 'arn:${AWS::Partition}:s3:::${AWS::Region}-bucket'
ExampleSegs ==
    <<Lit(s_arn), Ph("AWS::Partition"), Lit(s_s3), Ph("AWS::Region"), Lit(s_bucket)>>

SubSegs ==
    SeqsUpTo({Lit(s_arn), Ph("AWS::Region"), Ph("AWS::Partition"),
              Ph("AWS::StackName"), Ph("A")}, MaxSegs) \cup {ExampleSegs}

SubMapSegs ==
    SeqsUpTo({Lit(s_arn), Ph("A"), Ph("X"), Ph("AWS::StackName")}, MaxSegs)

SubMaps ==
    { << <<"A", Ref("A")>> >>,
      << <<"X", Str(s_x)>> >>,
      << <<"AWS::StackName", Ref("AWS::StackName")>> >>,
      << <<"X", Str(s_x)>>, <<"A", Ref("A")>> >>,
      << <<"A", GetAtt("A", "Arn")>>, <<"X", Str(s_x)>> >>,
      << <<"X", Join(s_dash, <<Ref("B"), Str(s_x)>>)>> >> }

JoinParts ==
    {Str(s_x), Ref("A"), Ref("B"), Ref("AWS::StackName"), GetAtt("A", "Arn")}

\* the stack-resource details CloudFormation may hold for a resource
RecordNoId(id) == Dict("LogicalResourceId" :> Str(Chars(id)))
RecordWithId(id, pid) ==
    Dict("LogicalResourceId" :> Str(Chars(id)) @@ "PhysicalResourceId" :> Str(pid))

StackOf(parameters) == [t |-> "stack", Parameters |-> parameters]

Resource(type, properties, depends_on, details) ==
    [Type |-> type, Properties |-> properties, DependsOn |-> depends_on,
     details |-> details]

ResolveTypes == {T_Queue, T_Topic, T_Bucket, T_Rule, T_LogGroup}

\* the provider's entries under which the lookups of the harness find the
\* resource of a logical id: under the id itself or its physical id
Existing(id) ==
    {"queue", "topic", "bucket"}
        \X {Chars(id), normalize_bucket_name(Str(Chars(id))).s, s_a1, s_b1}

\* The resolver is applied to one expression in an environment of two
\* resources A and B: with a stack name (and the stack's parameters, where a
\* parameter may carry the name of resource A) or without one.
InitResolve ==
    /\ region = s_us_east_1
    /\ \E with_name \in BOOLEAN :
          /\ stack_name = IF with_name THEN Str(s_st) ELSE None
          /\ stack \in IF with_name
                       THEN {StackOf(<<>>), StackOf(<< <<"A", Str(s_pv)>> >>),
                             StackOf(<< <<"AWS::Region", Str(s_pv)>>,
                                        <<"AWS::StackName", Str(s_pv)>>,
                                        <<"AWS::Partition", Str(s_pv)>> >>)}
                       ELSE {None}
          /\ \E recA \in {None, RecordNoId("A"), RecordWithId("A", s_a1)},
                recB \in {None, RecordWithId("B", s_b1)},
                typeA \in ResolveTypes,
                detailsA \in IF with_name THEN {0} ELSE {0, 1} :
                /\ stack_resources = ("A" :> recA @@ "B" :> recB)
                /\ resource_map =
                      ("A" :> Resource(typeA, Dict(<<>>), <<>>,
                                       IF detailsA = 1 THEN Missing ELSE recA)
                       @@ "B" :> Resource(T_Queue, Dict(<<>>), <<>>, recB))
                /\ \E existsA \in BOOLEAN :
                      provider = (IF existsA THEN Existing("A") ELSE {})
                                 \cup (IF recB = None THEN {} ELSE Existing("B"))
    /\ \/ /\ \E parts \in SeqsUpTo(JoinParts, MaxParts) : value = Join(s_dash, parts)
          /\ segs = <<>>
       \/ /\ \E n \in {"A", "B", "AWS::Region", "AWS::Partition", "AWS::StackName", "C"} :
                value = Ref(n)
          /\ segs = <<>>
       \/ /\ \E n \in {"A", "B"}, a \in {"Arn", "TopicArn"} : value = GetAtt(n, a)
          /\ segs = <<>>
       \/ /\ segs \in SubSegs
          /\ value = Sub(Flat(segs))
       \/ /\ segs \in SubMapSegs
          /\ \E subs \in SubMaps : value = SubMap(Flat(segs), subs)
    /\ result = None
    /\ pc = "input"
    /\ i = 0
    /\ next = {}
    /\ todo = {}
    /\ calls = {}
    /\ error = None

\* resolve_refs_recursively(stack_name, value, resources)
Resolve ==
    /\ pc = "input"
    /\ result' = resolve_refs_recursively(value)
    /\ pc' = "resolved"
    /\ UNCHANGED <<stack_name, region, stack, stack_resources, resource_map,
                   provider, i, next, todo, calls, error, value, segs>>

NextResolve == Resolve

SpecResolve == InitResolve /\ [][NextResolve]_vars

-----------------------------------------------------------------------------
(* deploy_template *)

iters == 10

\* "get resource details": the resources of next get the record CloudFormation
\* holds for them; the other resources keep what they had
Refresh ==
    /\ pc = "refresh"
    /\ resource_map' =
          [resource_id \in DOMAIN resource_map |->
              IF resource_id \in next
              THEN [resource_map[resource_id] EXCEPT
                       !.details = describe_stack_resource(resource_id)]
              ELSE resource_map[resource_id]]
    /\ pc' = "compute"
    /\ UNCHANGED <<stack_name, region, stack, stack_resources, provider,
                   i, next, todo, calls, error, value, segs, result>>

\* ComputeNext without "if not next: return"
ComputeNext_no_return ==
    /\ pc = "compute"
    /\ next' = resources_to_deploy_next
    /\ todo' = next'
    /\ pc' = "deploy"
    /\ UNCHANGED <<stack_name, region, stack, stack_resources, resource_map,
                   provider, i, calls, error, value, segs, result>>

\* next = resources_to_deploy_next(...); if not next: return
ComputeNext ==
    /\ pc = "compute"
    /\ next' = resources_to_deploy_next
    /\ todo' = next'
    /\ pc' = IF next' = {} THEN "returned" ELSE "deploy"
    /\ UNCHANGED <<stack_name, region, stack, stack_resources, resource_map,
                   provider, i, calls, error, value, segs, result>>

\* what the caller is left with after execute_resource_action: the
\* properties of the resource as the resolver left them, and the resources
\* whose state was fetched as the lookup left them
executed(resource_id, run) ==
    /\ provider' = run.provider
    /\ calls' = run.calls
    /\ error' = run.error
    /\ \E uid \in short_uids :
          resource_map' =
             [id \in DOMAIN resource_map |->
                 IF id = resource_id
                 THEN [resource_map[id] EXCEPT !.Properties = run.props]
                 ELSE IF id \in run.fetched THEN looked_up(resource_map[id], uid)
                 ELSE resource_map[id]]

\* what execute_resource_action starts from
Run(resource_id) ==
    [provider |-> provider, calls |-> calls, error |-> None,
     props |-> resource_map[resource_id].Properties, fetched |-> {}]

\* Deploy leaving the resource among those the loop has yet to reach
Deploy_again(resource_id) ==
    /\ pc = "deploy"
    /\ resource_id \in todo
    /\ \E oks \in [DOMAIN action_steps(resource_map[resource_id], ACTION_CREATE)
                      -> BOOLEAN] :
          executed(resource_id,
                   execute_resource_action(resource_id, ACTION_CREATE, oks,
                                           Run(resource_id)))
    /\ pc' = IF error' # None THEN "raised" ELSE "deploy"
    /\ todo' = todo
    /\ UNCHANGED <<stack_name, region, stack, stack_resources,
                   i, next, value, segs, result>>

\* deploy_resource for one resource of next: every step of its create action.
\* An exception leaves deploy_template, which catches nothing.
Deploy(resource_id) ==
    /\ pc = "deploy"
    /\ resource_id \in todo
    /\ \E oks \in [DOMAIN action_steps(resource_map[resource_id], ACTION_CREATE)
                      -> BOOLEAN] :
          executed(resource_id,
                   execute_resource_action(resource_id, ACTION_CREATE, oks,
                                           Run(resource_id)))
    /\ pc' = IF error' # None THEN "raised" ELSE "deploy"
    /\ todo' = todo \ {resource_id}
    /\ UNCHANGED <<stack_name, region, stack, stack_resources,
                   i, next, value, segs, result>>

\* EndIteration letting the loop go through one pass more
EndIteration_one_more ==
    /\ pc = "deploy"
    /\ todo = {}
    /\ i' = i + 1
    /\ pc' = IF i + 1 = iters + 1 THEN "exhausted" ELSE "refresh"
    /\ UNCHANGED <<stack_name, region, stack, stack_resources, resource_map,
                   provider, next, todo, calls, error, value, segs, result>>

\* the end of one pass of "for i in range(0, iters)"; after the last pass the
\* warning 'Unable to resolve all dependencies ...' reports what next holds
EndIteration ==
    /\ pc = "deploy"
    /\ todo = {}
    /\ i' = i + 1
    /\ pc' = IF i + 1 = iters THEN "exhausted" ELSE "refresh"
    /\ UNCHANGED <<stack_name, region, stack, stack_resources, resource_map,
                   provider, next, todo, calls, error, value, segs, result>>

Next ==
    \/ Refresh
    \/ ComputeNext
    \/ \E resource_id \in DOMAIN resource_map : Deploy(resource_id)
    \/ EndIteration

-----------------------------------------------------------------------------
(* The templates deploy_template is run on *)

s_q == <<"q">>
s_p1 == <<"p", "1">>

Kinds == {"queue", "queue_named", "topic", "bucket", "rule", "loggroup", "unknown"}

TypeOf(kind) ==
    CASE kind \in {"queue", "queue_named"} -> T_Queue
      [] kind = "topic"    -> T_Topic
      [] kind = "bucket"   -> T_Bucket
      [] kind = "rule"     -> T_Rule
      [] kind = "loggroup" -> T_LogGroup
      [] kind = "unknown"  -> T_Unknown

\* the property that names a resource of the kind
NameProperty(kind) ==
    CASE kind \in {"queue", "queue_named"} -> "QueueName"
      [] kind = "topic"  -> "TopicName"
      [] kind = "bucket" -> "BucketName"
      [] OTHER           -> "Name"

\* the property that takes the Join or the Sub of a kind: the name of a
\* queue or a topic, the description of the others
JoinProperty(kind) ==
    IF kind \in {"queue", "queue_named", "topic"} THEN NameProperty(kind)
    ELSE "Description"

\* the literal name of the resource id of a kind, None when it declares none
DeclaredName(kind, id) ==
    IF kind \in {"queue_named", "topic", "bucket"}
    THEN Str(LowerStr(Chars(id)) \o s_q)
    ELSE None

\* a resource of a kind that depends on target ("" for none) through link:
\* a DependsOn entry, a Ref in a property, or a Join or a Sub in its name
TemplateResource(kind, id, target, link) ==
    LET named == IF DeclaredName(kind, id) = None THEN <<>>
                 ELSE NameProperty(kind) :> DeclaredName(kind, id)
        properties ==
            CASE target = "" \/ link = "DependsOn" -> named
              [] link = "Ref"  -> ("Description" :> Ref(target)) @@ named
              [] link = "Join" ->
                    (JoinProperty(kind) :> Join(s_dash, <<Ref(target), Str(s_x)>>)) @@ named
              [] link = "Sub"  ->
                    (JoinProperty(kind) :>
                        SubMap(Flat(<<Ph("X"), Lit(s_x)>>), << <<"X", Ref(target)>> >>))
                    @@ named
    IN  Resource(TypeOf(kind), Dict(properties),
                 IF target # "" /\ link = "DependsOn" THEN <<target>> ELSE <<>>,
                 Missing)

\* the entry under which the provider holds the resource once its create
\* action has run, for a resource whose name is a literal or the logical id
RegisteredAs(id) ==
    LET resource == resource_map[id]
        resource_type == get_resource_type(resource)
        name == Or(Get(resource.Properties,
                       CASE resource_type = <<"SQS", "Queue">> -> "QueueName"
                         [] resource_type = <<"SNS", "Topic">> -> "TopicName"
                         [] resource_type = <<"S3", "Bucket">> -> "BucketName"
                         [] OTHER -> "Name"),
                   Str(Chars(id)))
    IN  IF name.t # "str" THEN s_p1
        ELSE CASE resource_type = <<"SQS", "Queue">> -> name.s
               [] resource_type = <<"SNS", "Topic">> -> ArnOf(name.s).s
               [] OTHER -> name.s

\* the ids of a chain of resources, each depending on the one before
ChainLen == iters + 1
ChainIds == [k \in 1..ChainLen |->
    <<"R1", "R2", "R3", "R4", "R5", "R6", "R7", "R8", "R9", "R10", "R11">>[k]]

\* The templates: two resources A and B of the kinds above, where A may
\* depend on B and B on A, or three, where B may depend on a queue C instead;
\* and chains of queues as long as the loop has iterations and one longer.
Templates ==
    { [id \in {"A", "B"} \cup (IF targetB = "C" THEN {"C"} ELSE {}) |->
          CASE id = "A" -> TemplateResource(kindA, "A", targetA, link)
            [] id = "B" -> TemplateResource(kindB, "B", targetB, link)
            [] id = "C" -> TemplateResource("queue", "C", "", link)] :
        kindA \in Kinds, kindB \in {"queue", "rule", "loggroup"},
        targetA \in {"", "B"}, targetB \in {"", "A", "C"},
        link \in {"DependsOn", "Ref", "Join", "Sub"} }
    \cup
    { [id \in {ChainIds[k] : k \in 1..n} |->
          LET k == CHOOSE j \in 1..n : ChainIds[j] = id
          IN  TemplateResource("queue", id, IF k = 1 THEN "" ELSE ChainIds[k - 1],
                               "DependsOn")] :
        n \in {iters, ChainLen} }

\* deploy_template(template, stack_name): without a stack name CloudFormation
\* has no record of any resource; with one it holds a record of each, with
\* or without the physical id.  The provider may hold A or B already.
Init ==
    /\ region = s_us_east_1
    /\ resource_map \in Templates
    /\ \E mode \in {"noname", "noid", "pid"} :
          /\ stack_name = IF mode = "noname" THEN None ELSE Str(s_st)
          /\ stack = IF mode = "noname" THEN None ELSE StackOf(<<>>)
          /\ stack_resources =
                [id \in DOMAIN resource_map |->
                    CASE mode = "noname" -> None
                      [] mode = "noid"   -> RecordNoId(id)
                      [] mode = "pid"    -> RecordWithId(id, RegisteredAs(id))]
    /\ provider \in {{}} \cup
          {{<<k, RegisteredAs(id)>> : k \in {"queue", "topic", "bucket"}} :
              id \in {"A", "B"} \cap DOMAIN resource_map}
    /\ pc = "refresh"
    /\ i = 0
    /\ next = DOMAIN resource_map
    /\ todo = {}
    /\ calls = {}
    /\ error = None
    /\ value = None
    /\ segs = <<>>
    /\ result = None

Spec == Init /\ [][Next]_vars

-----------------------------------------------------------------------------
(* Properties of the reference resolver, checked under SpecResolve *)

\* the strings of strs[1..k] with sep between them, built from the left
RECURSIVE JoinedUpTo(_, _, _)
JoinedUpTo(sep, strs, k) ==
    IF k = 1 THEN strs[1] ELSE JoinedUpTo(sep, strs, k - 1) \o sep \o strs[k]

\* what each part of the Fn::Join under test resolves to on its own
PartValues == [k \in DOMAIN value.parts |-> resolve_refs_recursively(value.parts[k])]

\* C7: Fn::Join [sep, parts] resolves every part and returns the resolved
\* parts joined by sep, in order; when a part resolves to None (or raises) the
\* resolution raises and returns no partial join.  With a stack name and no
\* stack parameter called A: Join('-', [Ref A, Ref B]) raises while A or B
\* has no stack-resource record, and gives 'a1-b1' once the records of A and
\* B carry the physical ids 'a1' and 'b1'.
C7_JoinAllOrNothing ==
    (pc = "resolved" /\ value.t = "join") =>
        /\ (\E k \in DOMAIN PartValues : PartValues[k].t \in {"none", "raise"})
              => IsRaise(result)
        /\ (\A k \in DOMAIN PartValues : PartValues[k].t = "str")
              => result = Str(JoinedUpTo(value.sep,
                                         [k \in DOMAIN PartValues |-> PartValues[k].s],
                                         Len(PartValues)))
        /\ (/\ value = Join(s_dash, <<Ref("A"), Ref("B")>>)
            /\ stack_name # None
            /\ get_stack_parameter("A") = None)
              => /\ (stack_resources["A"] = None \/ stack_resources["B"] = None)
                        => IsRaise(result)
                 /\ (/\ stack_resources["A"] = RecordWithId("A", s_a1)
                     /\ stack_resources["B"] = RecordWithId("B", s_b1))
                        => result = Str(<<"a", "1", "-", "b", "1">>)

C7_Witness ==
    /\ pc = "resolved"
    /\ value = Join(s_dash, <<Ref("A"), Ref("B")>>)
    /\ stack_resources["A"] = RecordWithId("A", s_a1)
    /\ result = Str(<<"a", "1", "-", "b", "1">>)

\* whether the Ref or Fn::GetAtt under test names a resource of the template
\* that is not deployed yet: it has no stack-resource record, or the record
\* does not hold the attribute and the provider does not have the resource
TargetAttribute == IF value.t = "ref" THEN "PhysicalResourceId" ELSE value.attr

TargetNotDeployed ==
    /\ value.t \in {"ref", "getatt"}
    /\ value.name \in DOMAIN resource_map
    /\ get_stack_parameter(value.name) = None
    /\ \/ stack_resources[value.name] = None
       \/ /\ Get(stack_resources[value.name], TargetAttribute) \in {None, Str(<<>>)}
          /\ Existing(value.name) \cap provider = {}

\* C8: a Ref or Fn::GetAtt to a resource that is not deployed yet resolves to
\* None and raises nothing.
C8_UndeployedRefIsNone ==
    (pc = "resolved" /\ TargetNotDeployed) => result = None

\* the context value of a pseudo-parameter, as characters
StaticValue(name) ==
    CASE name = "AWS::Region"    -> region
      [] name = "AWS::Partition" -> <<"a", "w", "s">>
      [] name = "AWS::StackName" -> IF stack_name.t = "str" THEN stack_name.s ELSE <<>>

\* the text of segments gs with every pseudo-parameter placeholder replaced
RECURSIVE ExpectedSub(_)
ExpectedSub(gs) ==
    IF gs = <<>> THEN <<>>
    ELSE (IF Head(gs).seg = "ph" /\ Head(gs).name \in {"AWS::Region", "AWS::Partition", "AWS::StackName"}
          THEN StaticValue(Head(gs).name)
          ELSE SegChars(Head(gs))) \o ExpectedSub(Tail(gs))

s_example_resolved ==
    <<"a", "r", "n", ":", "a", "w", "s", ":", "s", "3", ":", ":", ":",
      "u", "s", "-", "e", "a", "s", "t", "-", "1", "-", "b", "u", "c", "k", "e", "t">>

\* C9 as claimed: Fn::Sub of a bare string replaces every ${AWS::Region},
\* ${AWS::Partition} and ${AWS::StackName} by the context value, whatever the
\* context: 'arn:${AWS::Partition}:s3:::${AWS::Region}-bucket' gives
\* 'arn:aws:s3:::us-east-1-bucket' on every evaluation.
C9_BareSubResolves ==
    (pc = "resolved" /\ value.t = "sub") =>
        /\ result = Str(ExpectedSub(segs))
        /\ segs = ExampleSegs => result = Str(s_example_resolved)

\* C9 as amended: the same when the stack name is a string; when the stack
\* name is None the resolution raises, also for a text without
\* ${AWS::StackName}.
C9_BareSubWithStackName ==
    (pc = "resolved" /\ value.t = "sub") =>
        /\ stack_name.t = "str" =>
              /\ result = Str(ExpectedSub(segs))
              /\ segs = ExampleSegs => result = Str(s_example_resolved)
        /\ stack_name = None => IsRaise(result)

C9_Witness ==
    /\ pc = "resolved"
    /\ value = Sub(Flat(ExampleSegs))
    /\ result = Str(s_example_resolved)

\* what each value of the substitution map under test resolves to on its own
SubValues == [k \in DOMAIN value.subs |-> resolve_refs_recursively(value.subs[k][2])]

\* the text of segments gs with the placeholder of every key of the map
\* replaced by the key's resolved value
RECURSIVE ExpectedSubMap(_)
ExpectedSubMap(gs) ==
    IF gs = <<>> THEN <<>>
    ELSE (IF Head(gs).seg = "ph" /\ \E k \in DOMAIN value.subs : value.subs[k][1] = Head(gs).name
          THEN SubValues[CHOOSE k \in DOMAIN value.subs : value.subs[k][1] = Head(gs).name].s
          ELSE SegChars(Head(gs))) \o ExpectedSubMap(Tail(gs))

\* C10: Fn::Sub [text, map] resolves every value of the map and replaces each
\* ${name} of the text; when a value resolves to None (a Ref to a resource
\* that is not deployed, or the stack name when there is none) the whole
\* resolution raises: no string comes back, with the placeholder left in or
\* replaced by nothing.
C10_SubMapAllOrNothing ==
    (pc = "resolved" /\ value.t = "submap") =>
        /\ (\E k \in DOMAIN SubValues : SubValues[k].t \in {"none", "raise"})
              => IsRaise(result)
        /\ (\A k \in DOMAIN SubValues : SubValues[k].t = "str")
              => result = Str(ExpectedSubMap(segs))

C10_Witness ==
    /\ pc = "resolved"
    /\ value.t = "submap"
    /\ \E k \in DOMAIN SubValues :
          /\ SubValues[k] = None
          /\ Contains(value.text, Placeholder(value.subs[k][1]))
    /\ IsRaise(result)

\* the value the stack gives the input parameter of a name, None without one
ParameterValue(name) ==
    IF stack = None THEN None
    ELSE IF \E k \in DOMAIN stack.Parameters : stack.Parameters[k][1] = name
    THEN stack.Parameters[CHOOSE k \in DOMAIN stack.Parameters :
                             /\ stack.Parameters[k][1] = name
                             /\ \A j \in 1..(k - 1) : stack.Parameters[j][1] # name][2]
    ELSE None

\* what the name gives when it is resolved as a resource: the attribute of
\* the stack's record of it, else the attribute of what the state lookup finds
ResourceReference(name) ==
    IF Truthy(stack_name)
    THEN LET record == describe_stack_resource(name)
         IN  IF ~Truthy(record) THEN None
             ELSE IF Get(record, "PhysicalResourceId") \notin {None, Str(<<>>)}
             THEN Get(record, "PhysicalResourceId")
             ELSE resolve_ref_details(name, record, "PhysicalResourceId")
    ELSE IF name \notin DOMAIN resource_map
    THEN resolve_ref_details(name, Dict(<<>>), "PhysicalResourceId")
    ELSE IF resource_map[name].details = Missing THEN Raise("KeyError")
    ELSE resolve_ref_details(name, resource_map[name].details, "PhysicalResourceId")

\* C11: a Ref to AWS::Region, AWS::Partition or AWS::StackName gives the
\* region, 'aws' or the stack name whatever the stack's parameters, its
\* records and the provider hold; else a Ref to a name the stack has an input
\* parameter for gives the parameter's value, also when a resource has that
\* logical id; only else is the name resolved as a resource.
C11_RefResolutionOrder ==
    (pc = "resolved" /\ value.t = "ref") =>
        CASE value.name = "AWS::Region"    -> result = Str(region)
          [] value.name = "AWS::Partition" -> result = Str(<<"a", "w", "s">>)
          [] value.name = "AWS::StackName" -> result = stack_name
          [] OTHER ->
                IF ParameterValue(value.name) # None
                THEN result = ParameterValue(value.name)
                ELSE result = ResourceReference(value.name)

\* a Ref to A resolved where the stack has a parameter A and a resource A
\* that the provider holds
C11_Witness ==
    /\ pc = "resolved"
    /\ value = Ref("A")
    /\ ParameterValue("A") = Str(s_pv)
    /\ "A" \in DOMAIN resource_map
    /\ Truthy(ResourceReference("A"))
    /\ ResourceReference("A") # Str(s_pv)
    /\ result = Str(s_pv)

-----------------------------------------------------------------------------
(* Properties of deploy_template, checked under Spec *)

Deployable == {id \in DOMAIN resource_map : is_deployable_resource(resource_map[id])}

Terminated == pc \in {"returned", "exhausted", "raised"}

\* the dependencies of a resource, those of its dependencies, and so on
RECURSIVE DependenciesWithin(_, _)
DependenciesWithin(ids, n) ==
    IF n = 0 THEN ids
    ELSE DependenciesWithin(
             ids \cup UNION {get_resource_dependencies(id) : id \in ids}, n - 1)

\* the other resources a resource depends on, directly or not
TransitiveDependencies(id) ==
    DependenciesWithin(get_resource_dependencies(id),
                       Cardinality(DOMAIN resource_map)) \ {id}

\* the provider calls of the step just taken were made for resources of the
\* ready set of the current iteration
CallsOnlyForReadySet ==
    \A call \in calls' \ calls : call.id \in next /\ call.iter = i

\* C1 as claimed: a create action is invoked only for a resource of the ready
\* set of the iteration, and a resource is in the ready set only if it is
\* deployable, not deployed, and every dependency of it, direct or
\* transitive, is deployed when the ready set is computed.
C1_ReadyOnlyIfAllDeployed ==
    [][/\ CallsOnlyForReadySet
       /\ pc = "compute" =>
             \A id \in next' :
                /\ id \in Deployable
                /\ ~is_deployed(id)
                /\ \A dep \in TransitiveDependencies(id) : is_deployed(dep)]_vars

\* C1 as amended: a create action is invoked only for a resource of the ready
\* set of the iteration, and a resource is in the ready set only if it is
\* deployable, not deployed, and every direct dependency of it that is of a
\* deployable type is deployed when the ready set is computed; dependencies
\* of other types and the dependencies of its dependencies are not examined.
C1_ReadyOnlyIfDirectDeployed ==
    [][/\ CallsOnlyForReadySet
       /\ pc = "compute" =>
             \A id \in next' :
                /\ id \in Deployable
                /\ ~is_deployed(id)
                /\ \A dep \in get_resource_dependencies(id) \cap Deployable :
                      is_deployed(dep)]_vars

\* a resource was created in this iteration after the resource it depends on
\* had been deployed
C1_Witness ==
    /\ pc = "deploy"
    /\ \E call \in calls :
          /\ call.iter = i
          /\ call.ok
          /\ call.id \in next
          /\ get_resource_dependencies(call.id) \cap Deployable # {}
          /\ \A dep \in get_resource_dependencies(call.id) \cap Deployable :
                is_deployed(dep)

\* the dependency graph has no cycle: no resource is among the dependencies
\* of its dependencies, directly or not
Acyclic ==
    \A id \in DOMAIN resource_map :
        id \notin DependenciesWithin(get_resource_dependencies(id),
                                     Cardinality(DOMAIN resource_map))

\* the entry the state lookup of a resource searches for, given the record
\* CloudFormation holds
LookupEntry(id) ==
    LET resource_type == get_resource_type(resource_map[id])
        physical_id == Or(Get(Or(stack_resources[id], Dict(<<>>)), "PhysicalResourceId"),
                          Str(Chars(id)))
    IN  CASE resource_type = <<"SQS", "Queue">> -> <<"queue", physical_id.s>>
          [] resource_type = <<"SNS", "Topic">> -> <<"topic", physical_id.s>>
          [] resource_type = <<"S3", "Bucket">> ->
                <<"bucket",
                  normalize_bucket_name(Or(Get(resource_map[id].Properties, "BucketName"),
                                           physical_id)).s>>
          [] OTHER -> <<"none", <<>> >>

\* the state lookup of the resource finds what its create action registers:
\* the type has a lookup, the name is a literal or the logical id, and the
\* lookup searches under that name
Traceable(id) ==
    /\ \A key \in DOMAIN resource_map[id].Properties.d :
          key \in {"QueueName", "TopicName", "BucketName", "Name"}
             => resource_map[id].Properties.d[key].t = "str"
    /\ LookupEntry(id) = <<LookupEntry(id)[1], RegisteredAs(id)>>

\* every call so far succeeded, each in one of the first n iterations, and a
\* run that ended left every deployable resource deployed
AllDeployedWithin(n) ==
    /\ \A call \in calls : call.iter < n
    /\ Terminated => \A id \in Deployable : is_deployed(id)

\* C2 as claimed: when the dependency graph is acyclic and every provider
\* call succeeds, deploy_template ends with all N deployable resources
\* deployed, and no create action runs after the first N iterations, for
\* any N.
C2_AllDeployedWithinN ==
    ((\A call \in calls : call.ok) /\ Acyclic)
        => AllDeployedWithin(Cardinality(Deployable))

\* C2 as amended: the same for N at most 10, for templates in which the state
\* lookup of every deployable resource finds what the create action
\* registers, and for runs that no exception leaves.
C2_AllDeployedWithinNUpToIters ==
    (/\ pc # "raised"
     /\ Cardinality(Deployable) <= iters
     /\ \A id \in Deployable : Traceable(id)
     /\ Acyclic)
        => AllDeployedWithin(Cardinality(Deployable))

\* a chain of three resources is deployed in three iterations
C2_Witness ==
    /\ pc = "returned"
    /\ Cardinality(Deployable) = 3
    /\ \E call \in calls : call.iter = 2
    /\ \A id \in Deployable : Traceable(id) /\ is_deployed(id)
    /\ Acyclic

\* A and B are deployable, not deployed, and depend on each other
TwoCycle ==
    /\ {"A", "B"} \subseteq Deployable
    /\ "A" \in get_resource_dependencies("B")
    /\ "B" \in get_resource_dependencies("A")
    /\ ~is_deployed("A")
    /\ ~is_deployed("B")

\* C3 as claimed: with a cycle of A and B, deploy_template ends in the
\* exhaustion branch after the loop, reports A and B, and creates neither.
C3_CycleEndsExhausted ==
    TwoCycle =>
        /\ \A call \in calls : call.id \notin {"A", "B"}
        /\ Terminated => (pc = "exhausted" /\ {"A", "B"} \subseteq next)

\* C3 as amended: with a cycle of A and B, deploy_template creates neither,
\* has neither in a ready set, and returns in the first iteration, where the
\* ready set is empty: the exhaustion branch is not reached and nothing is
\* reported.
C3_CycleReturnsAtOnce ==
    TwoCycle =>
        /\ \A call \in calls : call.id \notin {"A", "B"}
        /\ pc \notin {"refresh", "compute"} =>
              (pc = "returned" /\ i = 0 /\ next = {})

C3_Witness ==
    /\ TwoCycle
    /\ pc = "returned"
    /\ calls = {}

\* C4: a resource that retrieve_resource_details reports when the ready set
\* is computed is not put in the ready set, and the provider calls of an
\* iteration are made for resources of its ready set only: its create action
\* is not invoked in that iteration.
C4_PresentNeverReady ==
    [][/\ pc = "compute" =>
             \A id \in DOMAIN resource_map : is_deployed(id) => id \notin next'
       /\ \A call \in calls' \ calls : call.id \in next /\ ~(call.iter # i)]_vars

\* a ready set was computed without a deployable resource that is present
C4_Witness ==
    /\ pc = "deploy"
    /\ todo = next
    /\ \E id \in Deployable : is_deployed(id) /\ id \notin next
    /\ \A call \in calls : call.iter = i => call.id \in next

\* C5 as claimed: a failed provider call does not end the run.
C5_FailureNeverAborts ==
    (\E call \in calls : ~call.ok) => pc # "raised"

\* C5 as amended: a failed provider call is raised out of deploy_template,
\* which catches nothing: the run ends with that exception at once, the
\* failed call is the only failed one and the last call made, and neither the
\* rest of the ready set nor a further iteration is executed.
C5_FailureAbortsRun ==
    (\E call \in calls : ~call.ok) =>
        /\ pc = "raised"
        /\ error = Raise("ProviderCallError")
        /\ ~ENABLED Next
        /\ \A failed \in {call \in calls : ~call.ok} :
              \A call \in calls :
                 /\ ~call.ok => call = failed
                 /\ call.iter <= failed.iter
                 /\ (call.iter = failed.iter /\ call.id = failed.id)
                       => call.step <= failed.step

\* a provider call failed while the ready set still held other resources
C5_Witness ==
    /\ \E call \in calls : ~call.ok
    /\ pc = "raised"
    /\ todo # {}

\* the steps of the create action of a resource
CreateSteps(id) ==
    RESOURCE_TO_FUNCTION[get_resource_type(resource_map[id])][ACTION_CREATE]

\* building the arguments of the first step of the create action raises
\* because an operand of a Join or of a Sub resolves to None
Unresolved(id) ==
    request_params(id, CreateSteps(id)[1], resource_map[id].Properties) \in {Raise("Exception"), Raise("TypeError")}

Pending == {id \in Deployable : ~is_deployed(id)}

\* C13: when the 10 passes are used up deploy_template has raised nothing, and
\* the resources its report lists are exactly the deployable resources that
\* are not deployed at that point.
C13_ExhaustionListsPending ==
    pc = "exhausted" => (error = None /\ next = Pending)

\* C14: within one pass of the loop of deploy_template the create action of a
\* resource is invoked at most once: every provider call of a step is the
\* first one of that step for that resource in that pass.
C14_OnceInAnIteration ==
    \A c \in calls : c.attempt = 1

\* a resource whose create action ran in two passes, once in each
C14_Witness ==
    \E c1, c2 \in calls :
        /\ c1.id = c2.id
        /\ c1.step = c2.step
        /\ c1.iter < c2.iter
        /\ c1.attempt = 1
        /\ c2.attempt = 1

-----------------------------------------------------------------------------
(* remove_none_values on argument maps *)

MaxDepth == 2

\* the values an argument map may hold down to a depth: None, a string, a
\* dict over the keys a and b, or a list of one element
RECURSIVE ArgValues(_)
ArgValues(depth) ==
    IF depth = 0 THEN {None, Str(s_x)}
    ELSE LET inner == ArgValues(depth - 1)
         IN  inner
             \cup {Dict(d) : d \in UNION {[keys -> inner] : keys \in SUBSET {"a", "b"}}}
             \cup {List(<<v>>) : v \in inner}

InitStrip ==
    /\ value \in {v \in ArgValues(MaxDepth) : v.t = "dict"}
    /\ result = None
    /\ pc = "input"
    /\ region = s_us_east_1
    /\ stack_name = None
    /\ stack = None
    /\ stack_resources = <<>>
    /\ resource_map = <<>>
    /\ provider = {}
    /\ i = 0
    /\ next = {}
    /\ todo = {}
    /\ calls = {}
    /\ error = None
    /\ segs = <<>>

\* params = remove_none_values(params)
Strip ==
    /\ pc = "input"
    /\ result' = remove_none_values(value)
    /\ pc' = "stripped"
    /\ UNCHANGED <<stack_name, region, stack, stack_resources, resource_map,
                   provider, i, next, todo, calls, error, value, segs>>

\* remove_none_values applied to what it returned
StripAgain ==
    /\ pc = "stripped"
    /\ result' = remove_none_values(result)
    /\ pc' = "stripped_again"
    /\ UNCHANGED <<stack_name, region, stack, stack_resources, resource_map,
                   provider, i, next, todo, calls, error, value, segs>>

NextStrip == Strip \/ StripAgain

SpecStrip == InitStrip /\ [][NextStrip]_vars

\* whether a dict at any depth of the value has an entry whose value is None
RECURSIVE HasNoneEntry(_)
HasNoneEntry(v) ==
    CASE v.t = "dict" ->
            \E k \in DOMAIN v.d : v.d[k] = None \/ HasNoneEntry(v.d[k])
      [] v.t = "list" -> \E k \in DOMAIN v.items : HasNoneEntry(v.items[k])
      [] OTHER -> FALSE

\* C17: remove_none_values is idempotent, and no dict at any depth of its
\* result has an entry whose value is None.
C17_StripIdempotent ==
    /\ pc \in {"stripped", "stripped_again"} => ~HasNoneEntry(result)
    /\ pc = "stripped_again" => result = remove_none_values(value)

\* a map with a None entry inside a nested dict, stripped twice
C17_Witness ==
    /\ pc = "stripped_again"
    /\ "a" \in DOMAIN value.d
    /\ value.d["a"].t = "dict"
    /\ HasNoneEntry(value.d["a"])
    /\ result # value

-----------------------------------------------------------------------------
(* get_resource_dependencies on templates of two resources *)

\* the text '{"Ref": "B"}' as the value of a string property
s_ref_text == <<"{", "\"", "Ref", "\"", ":", " ", "\"", "B", "\"", "}">>

\* the values of the property of a resource: nothing, a literal, the text of
\* a reference, a placeholder in an Fn::Sub text, or a Ref or an Fn::GetAtt
\* to a resource, at the top or inside a dict, a list, a Join or a Sub
DependencyProperties ==
    {Dict(<<>>),
     Dict("P" :> Str(s_x)),
     Dict("P" :> Str(s_ref_text)),
     Dict("P" :> Sub(Flat(<<Ph("B"), Lit(s_x)>>)))}
    \cup UNION {
        {Dict("P" :> Ref(o)),
         Dict("P" :> GetAtt(o, "Arn")),
         Dict("P" :> Dict("Q" :> List(<<Str(s_x), Dict("R" :> Ref(o))>>))),
         Dict("P" :> Join(s_dash, <<Str(s_x), GetAtt(o, "Arn")>>)),
         Dict("P" :> SubMap(Flat(<<Ph("X")>>), << <<"X", Ref(o)>> >>)),
         Dict("P" :> Str(s_x) @@ "Q" :> Ref(o))} : o \in {"A", "B", "C"} }

DependencyLists == {<<>>, <<"A">>, <<"B">>, <<"A", "B">>, <<"C">>}

\* two resources A and B, and C where one of them names it; '__details__' is
\* not set, or set to what describe_stack_resource gave
InitDeps ==
    /\ \E propsA \in DependencyProperties, depsA \in DependencyLists,
          propsB \in {Dict(<<>>), Dict("P" :> Ref("B")), Dict("P" :> Ref("A")),
                      Dict("P" :> GetAtt("C", "Arn"))},
          depsB \in {<<>>, <<"B">>, <<"A">>},
          typeB \in {T_Queue, T_Topic},
          recorded \in {"unset", "none", "record"} :
          LET details(id) == CASE recorded = "unset"  -> Missing
                               [] recorded = "none"   -> None
                               [] recorded = "record" -> RecordNoId(id)
          IN  resource_map =
                 ("A" :> Resource(T_Queue, propsA, depsA, details("A"))
                  @@ "B" :> Resource(typeB, propsB, depsB, details("B"))
                  @@ "C" :> Resource(T_Queue, Dict(<<>>), <<>>, details("C")))
    /\ value = None
    /\ result = None
    /\ pc = "input"
    /\ region = s_us_east_1
    /\ stack_name = None
    /\ stack = None
    /\ stack_resources = <<>>
    /\ provider = {}
    /\ i = 0
    /\ next = {}
    /\ todo = {}
    /\ calls = {}
    /\ error = None
    /\ segs = <<>>

\* get_resource_dependencies(resource_id, resource, resources) for every
\* resource of the template
Analyse ==
    /\ pc = "input"
    /\ result' = [resource_id \in DOMAIN resource_map |->
                     get_resource_dependencies(resource_id)]
    /\ pc' = "analysed"
    /\ UNCHANGED <<stack_name, region, stack, stack_resources, resource_map,
                   provider, i, next, todo, calls, error, value, segs>>

NextDeps == Analyse

SpecDeps == InitDeps /\ [][NextDeps]_vars

\* the logical ids a value names in a {'Ref': id} or {'Fn::GetAtt': [id, attr]}
\* at any depth of its tree
RECURSIVE RefsIn(_)
RefsIn(v) ==
    CASE v.t \in {"ref", "getatt"} -> {v.name}
      [] v.t = "join"   -> UNION {RefsIn(v.parts[k]) : k \in DOMAIN v.parts}
      [] v.t = "submap" -> UNION {RefsIn(v.subs[k][2]) : k \in DOMAIN v.subs}
      [] v.t = "dict"   -> UNION {RefsIn(v.d[key]) : key \in DOMAIN v.d}
      [] v.t = "list"   -> UNION {RefsIn(v.items[k]) : k \in DOMAIN v.items}
      [] OTHER          -> {}

\* what the resource of an id declares to depend on: its DependsOn entries
\* and the targets of the Ref and Fn::GetAtt of its properties
Declared(id) ==
    {resource_map[id].DependsOn[k] : k \in DOMAIN resource_map[id].DependsOn}
    \cup RefsIn(resource_map[id].Properties)

\* C20: get_resource_dependencies(R) holds another logical id O exactly when O
\* is in R's DependsOn or R's properties hold a Ref or an Fn::GetAtt to O; it
\* never holds R; nothing else (no dependency of a dependency) is added.
C20_DependenciesAreDeclared ==
    pc = "analysed" =>
        \A R \in DOMAIN resource_map :
            /\ R \notin result[R]
            /\ \A O \in DOMAIN resource_map \ {R} :
                  O \in result[R] <=> O \in Declared(R)

\* the same for the resources whose definitions differ
C20_DistinctDefinitions ==
    pc = "analysed" =>
        \A R \in DOMAIN resource_map :
            /\ R \notin result[R]
            /\ \A O \in DOMAIN resource_map \ {R} :
                  resource_map[O] # resource_map[R] =>
                      (O \in result[R] <=> O \in Declared(R))

-----------------------------------------------------------------------------
(* execute_resource_action and deploy_template on resources whose arguments
   go through every stage of configure_resource_via_sdk *)

s_2 == <<"2">>

\* Properties of the resources: a stream with or without a ShardCount; a
\* bucket with or without a name, a NotificationConfiguration and Tags; a
\* rule with or without a description that is the placeholder text and with
\* or without targets that name B; a topic whose tags name B; a role with or
\* without a name, the name being empty or not, and with or without a policy
\* document; a queue as delete_stack hands it over.
StreamProperties ==
    {Dict("Name" :> Str(s_q)),
     Dict("Name" :> Str(s_q) @@ "ShardCount" :> Str(<<>>)),
     Dict("Name" :> Str(s_q) @@ "ShardCount" :> Str(s_2))}

BucketProperties ==
    {Dict(name @@ notification @@ tags) :
        name \in {<<>>, "BucketName" :> Str(s_q)},
        notification \in {<<>>,
            "NotificationConfiguration" :>
                Dict("QueueConfigurations" :>
                        List(<<Dict("Queue" :> Str(s_arn) @@ "Event" :> Str(s_x))>>))},
        tags \in {<<>>,
            "Tags" :> List(<<Dict("Key" :> Str(s_x) @@ "Value" :> Str(s_x))>>),
            "Tags" :> List(<<Dict("Key" :> Str(s_x) @@ "Value" :> None)>>)}}

RuleProperties ==
    {Dict(description @@ targets) :
        description \in {<<>>, "Description" :> PLACEHOLDER_RESOURCE_NAME},
        targets \in {<<>>,
            "Targets" :> List(<<Dict("Id" :> Str(s_x) @@ "Arn" :> GetAtt("B", "Arn"))>>)}}

TopicProperties ==
    {Dict("TopicName" :> Str(s_q)
          @@ "Tags" :> List(<<Dict("Key" :> Str(s_x) @@ "Value" :> Ref("B"))>>))}

RoleProperties ==
    {Dict(named @@ name @@ policy) :
        named \in {<<>>, "Name" :> Str(s_x)},
        name \in {<<>>, "RoleName" :> Str(<<>>), "RoleName" :> Str(s_q)},
        policy \in {<<>>, "AssumeRolePolicyDocument" :> Dict("Version" :> Str(s_2))}}

QueueProperties ==
    {Dict("PhysicalResourceId" :> Str(s_a1) @@ "LogicalResourceId" :> Str(<<"A">>))}

\* the resource A of a template, and B, a queue or a log group
ActionTemplates ==
    { ("A" :> Resource(typed[1], typed[2], <<>>, Missing)
       @@ "B" :> Resource(typeB, Dict(<<>>), <<>>, Missing)) :
        typed \in ({T_Stream} \X StreamProperties)
                  \cup ({T_Bucket} \X BucketProperties)
                  \cup ({T_Rule} \X RuleProperties)
                  \cup ({T_Topic} \X TopicProperties)
                  \cup ({T_Role} \X RoleProperties)
                  \cup ({T_Queue} \X QueueProperties)
                  \cup ({T_Unknown, T_LogGroup, NoType} \X {Dict(<<>>)}),
        typeB \in {T_Queue, T_LogGroup} }

\* what the provider may hold of a resource
ProviderKinds ==
    {"queue", "topic", "bucket", "notification", "stream", "rule", "role"}

\* deploy_template(template, stack_name), or deploy_resource / delete_resource
\* called for the resource A of the template
InitAction ==
    /\ region = s_us_east_1
    /\ resource_map \in ActionTemplates
    /\ \E mode \in {"noname", "noid", "pid"} :
          /\ stack_name = IF mode = "noname" THEN None ELSE Str(s_st)
          /\ stack = IF mode = "noname" THEN None ELSE StackOf(<<>>)
          /\ stack_resources =
                [id \in DOMAIN resource_map |->
                    CASE mode = "noname" -> None
                      [] mode = "noid"   -> RecordNoId(id)
                      [] mode = "pid"    -> RecordWithId(id, RegisteredAs(id))]
    /\ provider \in {{}} \cup
          {{<<k, RegisteredAs(id)>> : k \in ProviderKinds} : id \in {"A", "B"}}
    /\ \/ /\ pc = "refresh"
          /\ next = DOMAIN resource_map
          /\ todo = {}
          /\ value = None
       \/ /\ pc = "action"
          /\ next = {}
          /\ todo = {"A"}
          /\ value \in {Str(<<ACTION_CREATE>>), Str(<<ACTION_DELETE>>)}
    /\ i = 0
    /\ calls = {}
    /\ error = None
    /\ segs = <<>>
    /\ result = None

\* execute_resource_action(resource_id, resources, stack_name, action_name)
Execute ==
    /\ pc = "action"
    /\ \E resource_id \in todo :
          \E oks \in [DOMAIN action_steps(resource_map[resource_id], value.s[1])
                         -> BOOLEAN] :
             executed(resource_id,
                      execute_resource_action(resource_id, value.s[1], oks,
                                              Run(resource_id)))
    /\ pc' = IF error' # None THEN "raised" ELSE "executed"
    /\ todo' = {}
    /\ UNCHANGED <<stack_name, region, stack, stack_resources,
                   i, next, value, segs, result>>

NextAction ==
    \/ Execute
    \/ Refresh
    \/ ComputeNext
    \/ \E resource_id \in DOMAIN resource_map : Deploy(resource_id)
    \/ EndIteration

SpecAction == InitAction /\ [][NextAction]_vars

-----------------------------------------------------------------------------
(* Properties of SpecAction *)

\* C12 as claimed: resolution leaves the template alone: whatever a step
\* does, calling the resolver directly or from the parameter pipeline of
\* configure_resource_via_sdk, the Properties of every resource of the
\* template are afterwards what they were before, so that a later pass
\* resolves the original Ref and Fn::GetAtt expressions.
C12_PropertiesUnchanged ==
    [][\A id \in DOMAIN resource_map :
          resource_map'[id].Properties = resource_map[id].Properties]_vars

\* the registry has no steps for the action of the resource
NotImplemented(id, action_name) ==
    action_steps(resource_map[id], action_name) = <<>>

\* C15: a resource whose type the registry does not know, or whose entry has
\* nothing for the requested action, is harmless: execute_resource_action
\* called for it returns without an exception, without a provider call and
\* without a change at the provider; deploy_template never has it in a ready
\* set, and no provider call is ever made for an action it does not have.
C15_NotImplementedIsHarmless ==
    [][/\ (pc = "action" /\ \A id \in todo : NotImplemented(id, value.s[1]))
            => /\ pc' = "executed"
               /\ error' = None
               /\ calls' = calls
               /\ provider' = provider
       /\ pc' = "deploy" => \A id \in next' : ~NotImplemented(id, ACTION_CREATE)
       /\ \A call \in calls' \ calls :
             \E action_name \in {ACTION_CREATE, ACTION_DELETE} :
                /\ ~NotImplemented(call.id, action_name)
                /\ \E k \in DOMAIN action_steps(resource_map[call.id], action_name) :
                      call.function \in
                          {action_steps(resource_map[call.id], action_name)[k].function,
                           "put_bucket_tagging"}]_vars

\* execute_resource_action has returned for a resource without the action
C15_Witness ==
    /\ pc = "executed"
    /\ NotImplemented("A", value.s[1])
    /\ calls = {}
    /\ error = None

\* C16 as claimed: within the steps of one action of a resource the name
\* of the resource is derived at most once: of the provider calls of one
\* resource in one pass, at most one had get_resource_name evaluated for
\* its arguments.
C16_NameDerivedOncePerAction ==
    \A c1 \in calls : \A c2 \in calls :
       (c1.id = c2.id /\ c1.iter = c2.iter /\ c1 # c2) => c1.names + c2.names <= 1

\* the argument of a provider call a default is registered for: what the
\* resource has for it, and what it is given when the resource has nothing
Defaulted(call) ==
    CASE call.function = "create_stream" ->
            [argument |-> "ShardCount", property |-> "ShardCount",
             default |-> Number(1)]
      [] call.function = "create_role" ->
            [argument |-> "RoleName", property |-> "RoleName",
             default |-> IF Truthy(Get(resource_map[call.id].Properties, "Name"))
                         THEN Get(resource_map[call.id].Properties, "Name")
                         ELSE Str(Chars(call.id))]

\* C18: a default of the registry is given to an argument only when source
\* selection left the argument absent or empty: the provider is called with
\* the default where the resource has no value or '' for the argument, and
\* with the value of the resource where it has one.
C18_DefaultsOnlyWhenEmpty ==
    [][\A call \in calls' \ calls :
          call.function \in {"create_stream", "create_role"} =>
             Get(call.params, Defaulted(call).argument) =
                IF Get(resource_map[call.id].Properties, Defaulted(call).property)
                      \in {None, Str(<<>>)}
                THEN Defaulted(call).default
                ELSE Get(resource_map[call.id].Properties,
                         Defaulted(call).property)]_vars

\* a resource that has a value for the argument was created with it
C18_Witness ==
    \E call \in calls :
       /\ call.function \in {"create_stream", "create_role"}
       /\ call.ok
       /\ Get(resource_map[call.id].Properties, Defaulted(call).property)
             \notin {None, Str(<<>>)}
       /\ Get(call.params, Defaulted(call).argument) =
             Get(resource_map[call.id].Properties, Defaulted(call).property)

\* source selection of the second create step of the bucket signals skip
Skips(id) ==
    /\ get_resource_type(resource_map[id]) = <<"S3", "Bucket">>
    /\ ~Truthy(Get(resource_map[id].Properties, "NotificationConfiguration"))

\* C19: a step whose source selection returns None is skipped without an
\* error: once create_bucket has succeeded for a bucket without
\* NotificationConfiguration, the action ends without an exception, and
\* neither the provider operation of the skipped step nor a post-action of
\* it is called.
C19_SkipIsSilent ==
    [][\A call \in calls' \ calls :
          (call.function = "create_bucket" /\ call.ok /\ Skips(call.id))
             => /\ error' = None
                /\ \A other \in calls' \ calls :
                      other.id = call.id => other.step = 1]_vars

\* the create action of a bucket with tags and without
\* NotificationConfiguration has returned
C19_Witness ==
    /\ pc = "executed"
    /\ error = None
    /\ Skips("A")
    /\ \E call \in calls : call.function = "create_bucket" /\ call.ok
    /\ \E call \in calls : call.function = "put_bucket_tagging"

-----------------------------------------------------------------------------
(* delete_stack *)

\* the types of the resources of the stacks that are deleted
DeleteTypes == {T_Queue, T_Topic, T_Bucket, T_Stream, T_Rule, T_LogGroup, T_Unknown}

\* the physical id of the stack resource of a logical id
PhysicalIdOf(id) == <<"p">> \o LowerStr(Chars(id))

\* delete_stack(stack_name, stack_resources) after its first two loops: every
\* entry of stack_resources is a resource under its LogicalResourceId, its
\* Properties being a copy of the entry itself (of its keys the delete steps
\* read PhysicalResourceId only).  The provider holds any of the resources.
InitDelete ==
    /\ region = s_us_east_1
    /\ stack_name = Str(s_st)
    /\ stack = StackOf(<<>>)
    /\ \E types \in [{"A", "B", "C"} -> DeleteTypes] :
          /\ stack_resources =
                [id \in DOMAIN types |-> RecordWithId(id, PhysicalIdOf(id))]
          /\ resource_map =
                [id \in DOMAIN types |->
                    Resource(types[id], RecordWithId(id, PhysicalIdOf(id)), <<>>, Missing)]
    /\ provider \in
          {UNION {{<<kind, PhysicalIdOf(id)>> : kind \in ProviderKinds} : id \in ids} :
              ids \in SUBSET {"A", "B"}}
    /\ pc = "delete"
    /\ todo = DOMAIN resource_map
    /\ next = {}
    /\ i = 0
    /\ calls = {}
    /\ error = None
    /\ value = None
    /\ segs = <<>>
    /\ result = None

\* one pass of "for resource_id, resource in resources.items():
\* delete_resource(resource_id, resources, stack_name)".  The order of the
\* loop is the order of stack_resources, which is any order; an exception
\* leaves delete_stack, which catches nothing.
DeleteResource(resource_id) ==
    /\ pc = "delete"
    /\ resource_id \in todo
    /\ \E oks \in [DOMAIN action_steps(resource_map[resource_id], ACTION_DELETE)
                      -> BOOLEAN] :
          executed(resource_id,
                   execute_resource_action(resource_id, ACTION_DELETE, oks,
                                           Run(resource_id)))
    /\ todo' = todo \ {resource_id}
    /\ pc' = IF error' # None THEN "raised"
             ELSE IF todo' = {} THEN "deleted" ELSE "delete"
    /\ UNCHANGED <<stack_name, region, stack, stack_resources,
                   i, next, value, segs, result>>

NextDelete == \E resource_id \in DOMAIN resource_map : DeleteResource(resource_id)

SpecDelete == InitDelete /\ [][NextDelete]_vars

\* C21 as claimed: when delete_stack has ended, the delete action of every
\* resource of the stack that has one was invoked exactly once, whatever the
\* order of the loop and whatever became of the delete of the others.
C21_EveryDeleteInvokedOnce ==
    pc \in {"deleted", "raised"} =>
        \A id \in DOMAIN resource_map :
           ~NotImplemented(id, ACTION_DELETE) =>
               Cardinality({call \in calls : call.id = id}) = 1

-----------------------------------------------------------------------------
(* deploy_template on a queue and a bucket that notifies the queue *)

s_aq == <<"a", "q">>
s_bq == <<"b", "q">>

\* the queue A, with or without a QueueName, and the bucket B, with or
\* without a BucketName, whose NotificationConfiguration names the Arn of A
EndToEndTemplates ==
    { ("A" :> Resource(T_Queue, Dict(queue_name), <<>>, Missing)
       @@ "B" :> Resource(T_Bucket,
                          Dict(bucket_name
                               @@ "NotificationConfiguration" :>
                                     Dict("QueueConfigurations" :>
                                             List(<<Dict("Queue" :> GetAtt("A", "Arn")
                                                         @@ "Event" :> Str(s_x))>>))),
                          <<>>, Missing)) :
        queue_name \in {<<>>, "QueueName" :> Str(s_aq)},
        bucket_name \in {<<>>, "BucketName" :> Str(s_bq)} }

\* deploy_template(template, stack_name) before its loop, nothing being
\* deployed: without a stack name, or with one and the records of the stack
\* holding the physical id of each resource or none
InitEndToEnd ==
    /\ region = s_us_east_1
    /\ resource_map \in EndToEndTemplates
    /\ \E mode \in {"noname", "noid", "pid"} :
          /\ stack_name = IF mode = "noname" THEN None ELSE Str(s_st)
          /\ stack = IF mode = "noname" THEN None ELSE StackOf(<<>>)
          /\ stack_resources =
                [id \in DOMAIN resource_map |->
                    CASE mode = "noname" -> None
                      [] mode = "noid"   -> RecordNoId(id)
                      [] mode = "pid"    -> RecordWithId(id, RegisteredAs(id))]
    /\ provider = {}
    /\ pc = "refresh"
    /\ next = DOMAIN resource_map
    /\ todo = {}
    /\ i = 0
    /\ calls = {}
    /\ error = None
    /\ value = None
    /\ segs = <<>>
    /\ result = None

SpecEndToEnd == InitEndToEnd /\ [][Next]_vars

\* the QueueArn of the first queue configuration a call was given
QueueArnIn(call) ==
    call.params.d["NotificationConfiguration"].d["QueueConfigurations"].items[1].d["QueueArn"]

\* iteration 1 creates the queue only, iteration 2 the bucket, with the Arn
\* of the queue in its notification configuration, no later iteration creates
\* anything, and the run returns after the third pass found nothing to do,
\* both being deployed
QueueThenBucket ==
    /\ \A call \in calls :
          \/ call.iter = 0 /\ call.id = "A" /\ call.function = "create_queue"
          \/ call.iter = 1 /\ call.id = "B" /\ call.function = "create_bucket"
          \/ /\ call.iter = 1
             /\ call.id = "B"
             /\ call.function = "put_bucket_notification_configuration"
             /\ QueueArnIn(call) = ArnOf(RegisteredAs("A"))
             /\ \E first \in calls : first.function = "create_bucket" /\ first.ok
    /\ Terminated =>
          /\ pc = "returned"
          /\ i = 2
          /\ Cardinality(calls) = 3
          /\ is_deployed("A")
          /\ is_deployed("B")

-----------------------------------------------------------------------------
(* Termination of deploy_template *)

\* Every step that can be taken is taken in the end: each call of a
\* collaborator returns or fails, and the interpreter goes on to the next
\* statement.  This is WF_vars(Next) with ENABLED <<Next>>_vars written as
\* ~Terminated: every action is its guard on pc and todo followed by
\* assignments, and in a state that is not terminated one of the guards holds.
Fairness == []<>Terminated \/ []<><<Next>>_vars

SpecFair == Init /\ [][Next]_vars /\ Fairness

\* C23: deploy_template always terminates: whatever the template, cyclic
\* ones and ones whose resources never become deployed included, the run
\* ends, and the loop never starts an eleventh pass: no pass and no provider
\* call has an index beyond the 10 passes.
C23_Terminates ==
    /\ <>Terminated
    /\ [](/\ i <= iters
          /\ (i = iters => pc = "exhausted")
          /\ \A call \in calls : call.iter < iters)

\* the loop has used its 10 passes on resources that were created in every
\* pass and never found deployed
C23_Witness ==
    /\ pc = "exhausted"
    /\ i = iters
    /\ \E call \in calls : call.iter = iters - 1

-----------------------------------------------------------------------------
(* The end of deploy_template, checked under Spec *)

\* the run is in, or returned from, the first pass whose ready set is empty,
\* and no create action was invoked in that pass
AtFixedPoint ==
    /\ pc = "deploy" => next # {}
    /\ pc = "returned" => (next = {} /\ \A call \in calls : call.iter < i)

\* C24 as claimed: deploy_template returns in the first pass whose computed
\* ready set is empty, without invoking a create action in that pass, and
\* while the computed ready set is not empty it never stops before its 10
\* passes are used up.
C24_StopsAtFixedPointOnly ==
    [][/\ AtFixedPoint'
       /\ pc = "compute" => (pc' = "returned" <=> resources_to_deploy_next = {})
       /\ Terminated' => \/ pc' = "returned"
                         \/ pc' = "exhausted" /\ i' = iters]_vars

\* C24 as amended: the same, except that an exception of a create action
\* leaves deploy_template at once, whatever the ready set still holds and
\* however many passes are left.
C24_StopsAtFixedPointOrRaises ==
    [][/\ AtFixedPoint'
       /\ pc = "compute" => (pc' = "returned" <=> resources_to_deploy_next = {})
       /\ Terminated' => \/ pc' = "returned"
                         \/ pc' = "exhausted" /\ i' = iters
                         \/ pc' = "raised" /\ pc = "deploy" /\ error' # None]_vars

\* the run returned from a pass with an empty ready set after passes that
\* invoked create actions
C24_Witness ==
    /\ pc = "returned"
    /\ next = {}
    /\ i > 0
    /\ \E call \in calls : call.iter = i - 1

-----------------------------------------------------------------------------
(* deploy_template while the records of the stack change *)

\* CloudFormation records the physical id of a resource of the stack: what
\* describe_stack_resource answers for it changes during the run
RecordChanges ==
    /\ pc \in {"refresh", "compute", "deploy"}
    /\ \E id \in DOMAIN resource_map :
          /\ stack_resources[id] = RecordNoId(id)
          /\ stack_resources' =
                [stack_resources EXCEPT ![id] = RecordWithId(id, RegisteredAs(id))]
    /\ UNCHANGED <<stack_name, region, stack, resource_map, provider, pc, i,
                   next, todo, calls, error, value, segs, result>>

NextRefresh == Next \/ RecordChanges

SpecRefresh == InitEndToEnd /\ [][NextRefresh]_vars

\* C25 as claimed: at the start of every pass of the loop, the first or a
\* later one, the '__details__' of every resource of the template is what
\* describe_stack_resource answers for it at that time, before the ready set
\* is computed.
C25_EveryResourceRefreshed ==
    [][pc = "refresh" /\ pc' = "compute" =>
          \A id \in DOMAIN resource_map :
             resource_map'[id].details = describe_stack_resource(id)]_vars

-----------------------------------------------------------------------------
(* The steps of an action, checked under SpecAction *)

\* the action the step being taken executes
ActionTaken == IF pc = "action" THEN value.s[1] ELSE ACTION_CREATE

\* C26: the provider operations of the steps of an action are invoked in the
\* order the registry declares them, and a later step is invoked only after
\* the provider call of every earlier step has returned successfully: a call
\* made for step k is the operation the registry declares for step k, and
\* every step before k has then had its operation called with success in the
\* same execution of the action.
C26_StepsInOrder ==
    [][\A call \in calls' \ calls :
          call.function # "put_bucket_tagging" =>
             /\ call.step \in DOMAIN action_steps(resource_map[call.id], ActionTaken)
             /\ action_steps(resource_map[call.id], ActionTaken)[call.step].function
                   = call.function
             /\ \A j \in 1..(call.step - 1) :
                   \E earlier \in calls' \ calls :
                      /\ earlier.id = call.id
                      /\ earlier.step = j
                      /\ earlier.function =
                            action_steps(resource_map[call.id], ActionTaken)[j].function
                      /\ earlier.ok]_vars

\* both steps of the create action of a rule were called
C26_Witness ==
    /\ \E call \in calls : call.function = "put_rule" /\ call.step = 1 /\ call.ok
    /\ \E call \in calls : call.function = "put_targets" /\ call.step = 2

-----------------------------------------------------------------------------
(* The ready set, checked under Spec *)

\* C27: no member of a ready set computed by resources_to_deploy_next
\* depends, per get_resource_dependencies, on another member of that ready
\* set.
C27_ReadySetIndependent ==
    [][pc = "compute" =>
          \A resource_id \in next' :
             get_resource_dependencies(resource_id) \cap next' = {}]_vars

\* a ready set of two resources was computed while a third resource, which
\* depends on one of them, was left out of it
C27_Witness ==
    /\ pc = "deploy"
    /\ todo = next
    /\ Cardinality(next) = 2
    /\ \E resource_id \in Deployable \ next :
          get_resource_dependencies(resource_id) \cap next # {}

-----------------------------------------------------------------------------
(* execute_resource_action for a resource whose arguments refer to another *)

\* Properties of the resource B the arguments of A refer to: a function
\* without a FunctionName, with an empty one or with one
FunctionProperties ==
    {Dict(name @@ handler) :
        name \in {<<>>, "FunctionName" :> Str(<<>>), "FunctionName" :> Str(s_q)},
        handler \in {<<>>, "Handler" :> Str(s_x)}}

\* A, a rule whose targets or a topic whose tags name B; B, a function, a
\* queue or a bucket; C, a function nothing refers to
ReferringTemplates ==
    { ("A" :> Resource(typedA[1], typedA[2], <<>>, Missing)
       @@ "B" :> Resource(typedB[1], typedB[2], <<>>, Missing)
       @@ "C" :> Resource(T_Function, Dict(<<>>), <<>>, Missing)) :
        typedA \in ({T_Rule} \X RuleProperties) \cup ({T_Topic} \X TopicProperties),
        typedB \in ({T_Function} \X FunctionProperties)
                   \cup ({T_Queue} \X {Dict(<<>>)})
                   \cup ({T_Bucket} \X {Dict("BucketName" :> Str(s_q))}) }

\* deploy_resource or delete_resource called for the resource A of the
\* template, with or without a stack; the provider holds nothing, or the
\* resources of the name B declares or of the name B has for want of one
InitReferring ==
    /\ region = s_us_east_1
    /\ resource_map \in ReferringTemplates
    /\ \E mode \in {"noname", "noid", "pid"} :
          /\ stack_name = IF mode = "noname" THEN None ELSE Str(s_st)
          /\ stack = IF mode = "noname" THEN None ELSE StackOf(<<>>)
          /\ stack_resources =
                [id \in DOMAIN resource_map |->
                    CASE mode = "noname" -> None
                      [] mode = "noid"   -> RecordNoId(id)
                      [] mode = "pid"    -> RecordWithId(id, s_q)]
    /\ provider \in {{}} \cup
          {{<<k, name>> : k \in ProviderKinds \cup {"function"}} :
              name \in {s_q, <<"B">>}}
    /\ pc = "action"
    /\ next = {}
    /\ todo = {"A"}
    /\ value \in {Str(<<ACTION_CREATE>>), Str(<<ACTION_DELETE>>)}
    /\ i = 0
    /\ calls = {}
    /\ error = None
    /\ segs = <<>>
    /\ result = None

NextReferring == Execute

SpecReferring == InitReferring /\ [][NextReferring]_vars

-----------------------------------------------------------------------------
(* Source selection on mapping tables of any declared sources *)

\* the longest list of sources an argument declares
MaxSources == 3

\* the sources an argument may declare: two property names, the placeholder,
\* a transform that gives None for a resource without a
\* NotificationConfiguration and one that always gives a value
Sources ==
    {Prop("P"), Prop("Q"), Placeholder_src,
     Fn("s3_bucket_notification_config"), Fn("get_bucket_location_config")}

\* Properties with P missing, None, empty or set, with or without Q and with
\* or without a NotificationConfiguration
SelectProperties ==
    {Dict(p @@ q @@ notification) :
        p \in {<<>>, "P" :> None, "P" :> Str(<<>>), "P" :> Str(s_x)},
        q \in {<<>>, "Q" :> Str(s_q)},
        notification \in {<<>>,
            "NotificationConfiguration" :>
                Dict("QueueConfigurations" :>
                        List(<<Dict("Queue" :> Str(s_arn) @@ "Event" :> Str(s_x))>>))}}

\* the mapping table of the step: Target with the declared sources, and
\* Other, whose only source is Q
SelectTable ==
    TableStep("create", << <<"Target", segs>>, <<"Other", <<Prop("Q")>> >> >>)

\* configure_resource_via_sdk about to select the sources of a step
InitSelect ==
    /\ region = s_us_east_1
    /\ stack_name = Str(s_st)
    /\ stack = StackOf(<<>>)
    /\ resource_map \in {"A" :> Resource(T_Bucket, properties, <<>>, Missing) :
                            properties \in SelectProperties}
    /\ stack_resources = [id \in DOMAIN resource_map |-> RecordNoId(id)]
    /\ provider = {}
    /\ segs \in SeqsUpTo(Sources, MaxSources)
    /\ pc = "select"
    /\ value = None
    /\ next = {}
    /\ todo = {}
    /\ i = 0
    /\ calls = {}
    /\ error = None
    /\ result = None

\* the source selection of configure_resource_via_sdk
Select ==
    /\ pc = "select"
    /\ value' = select_params(SelectTable, resource_map["A"].Properties)
    /\ pc' = "selected"
    /\ UNCHANGED <<stack_name, region, stack, stack_resources, resource_map,
                   provider, i, next, todo, calls, error, segs, result>>

NextSelect == Select

SpecSelect == InitSelect /\ [][NextSelect]_vars

\* the value of a declared source that is no placeholder
SourceValue(source) ==
    IF source.k = "fn"
    THEN call_transform(source.name, resource_map["A"].Properties)
    ELSE Get(resource_map["A"].Properties, source.name)

\* the declared sources whose value is present
PresentSources ==
    {k \in DOMAIN segs : segs[k] # Placeholder_src /\ SourceValue(segs[k]) # None}

\* C29: in source selection with a direct mapping table, the argument takes
\* the value of the first declared source, a property name or a custom
\* transform, whose value is not None; when none has a value it is the
\* placeholder if one is declared, and else it is absent from the map.
C29_FirstPresentSource ==
    pc = "selected" =>
        /\ PresentSources # {} =>
              Get(value, "Target") =
                  SourceValue(segs[CHOOSE k \in PresentSources :
                                      \A j \in PresentSources : k <= j])
        /\ PresentSources = {} /\ (\E k \in DOMAIN segs : segs[k] = Placeholder_src) =>
              Get(value, "Target") = PLACEHOLDER_RESOURCE_NAME
        /\ PresentSources = {} /\ (\A k \in DOMAIN segs : segs[k] # Placeholder_src) =>
              "Target" \notin DOMAIN value.d
        /\ "Other" \in DOMAIN value.d <=> "Q" \in DOMAIN resource_map["A"].Properties.d

\* the first declared source has no value, the second and the third have
\* one, and the argument has the value of the second
C29_Witness ==
    /\ pc = "selected"
    /\ Len(segs) = 3
    /\ PresentSources = {2, 3}
    /\ SourceValue(segs[2]) # SourceValue(segs[3])
    /\ Get(value, "Target") = SourceValue(segs[2])

-----------------------------------------------------------------------------
(* The arguments of the provider calls, checked under SpecAction *)

\* the provider calls that are the operation of a step, function(**params)
StepCalls == {call \in calls : call.function # "put_bucket_tagging"}

\* C30 as claimed: no provider operation is invoked with an argument map that
\* has, at any depth, an entry whose value is None, or an entry whose value
\* is the placeholder of the resource name.
C30_NoNoneNoPlaceholder ==
    \A call \in calls :
       ~HasNoneEntry(call.params) /\ placeholders(call.params) = 0

\* C30, amended: the operation of a step is never invoked with an argument
\* map that has, at any depth, an entry whose value is None, or an entry
\* whose value is the placeholder of the resource name: the placeholders are
\* replaced before, and the None values are removed after, the references
\* are resolved.  (put_bucket_tagging, called after create_bucket, is given
\* the Tags of the template as they are.)
C30_StepCallsNoNoneNoPlaceholder ==
    \A call \in StepCalls :
       ~HasNoneEntry(call.params) /\ placeholders(call.params) = 0

\* put_targets was called for the rule A: the Arn of its target, a reference
\* to the attribute of a resource that is not there, is gone from the
\* arguments, and the placeholder of Rule is the name of the resource
C30_Witness ==
    \E call \in calls :
       /\ call.function = "put_targets"
       /\ Get(call.params, "Rule") = Str(<<"A">>)
       /\ Get(call.params, "Targets") = List(<<Dict("Id" :> Str(s_x))>>)

-----------------------------------------------------------------------------
(* deploy_template while the state of a type cannot be fetched *)

\* deploy_template before its loop, on the queue A and the bucket B: nothing
\* is deployed, and the state lookups of queues, of buckets, of both or of
\* neither are answered with an error that is no "not found"
InitOutage ==
    /\ region = s_us_east_1
    /\ resource_map \in EndToEndTemplates
    /\ \E mode \in {"noname", "noid", "pid"} :
          /\ stack_name = IF mode = "noname" THEN None ELSE Str(s_st)
          /\ stack = IF mode = "noname" THEN None ELSE StackOf(<<>>)
          /\ stack_resources =
                [id \in DOMAIN resource_map |->
                    CASE mode = "noname" -> None
                      [] mode = "noid"   -> RecordNoId(id)
                      [] mode = "pid"    -> RecordWithId(id, RegisteredAs(id))]
    /\ provider \in SUBSET {<<"unavailable", <<"SQS", "Queue">> >>,
                            <<"unavailable", <<"S3", "Bucket">> >>}
    /\ pc = "refresh"
    /\ next = DOMAIN resource_map
    /\ todo = {}
    /\ i = 0
    /\ calls = {}
    /\ error = None
    /\ value = None
    /\ segs = <<>>
    /\ result = None

SpecOutage == InitOutage /\ [][Next]_vars

\* C31 as claimed: a state fetch that finds nothing makes the resource count
\* as not deployed without ending the run, and only such a fetch does: a
\* resource whose state fetch failed otherwise is not, for that failure,
\* taken to be undeployed and made ready for creation.
C31_OnlyNotFoundIsUndeployed ==
    [][pc = "compute" =>
          \A id \in Deployable :
             /\ ~fetch_fails(get_resource_type(resource_map[id]))
                /\ LookupEntry(id) \notin provider
                   => ~is_deployed(id) /\ pc' # "raised"
             /\ fetch_fails(get_resource_type(resource_map[id])) => id \notin next']_vars

-----------------------------------------------------------------------------
(* is_updateable and update_resource *)

\* Properties of a function: with or without a FunctionName, a Handler that
\* refers to B or not, with or without Code
UpdateProperties ==
    {Dict(name @@ handler @@ code) :
        name \in {<<>>, "FunctionName" :> Str(s_q)},
        handler \in {<<>>, "Handler" :> Str(s_x), "Handler" :> Ref("B")},
        code \in {<<>>, "Code" :> Dict("S3Bucket" :> Str(s_x))}}

\* the resource A, a function or a resource of a type that cannot be
\* updated, and the queue B
UpdateTemplates ==
    { ("A" :> Resource(typed[1], typed[2], <<>>, Missing)
       @@ "B" :> Resource(T_Queue, Dict(<<>>), <<>>, Missing)) :
        typed \in ({T_Function} \X UpdateProperties)
                  \cup ({T_Queue, T_Bucket, T_Rule, T_LogGroup, T_Unknown}
                           \X {Dict(<<>>), Dict("Name" :> Str(s_q))}) }

\* A caller about to update the resource A: it calls update_resource at
\* once, or asks is_updateable first.  The provider holds nothing, or what
\* A is looked up under.
InitUpdate ==
    /\ region = s_us_east_1
    /\ resource_map \in UpdateTemplates
    /\ \E mode \in {"noname", "noid"} :
          /\ stack_name = IF mode = "noname" THEN None ELSE Str(s_st)
          /\ stack = IF mode = "noname" THEN None ELSE StackOf(<<>>)
          /\ stack_resources =
                [id \in DOMAIN resource_map |->
                    IF mode = "noname" THEN None ELSE RecordNoId(id)]
    /\ provider \in {{}} \cup
          {{<<k, name>> : k \in ProviderKinds \cup {"function"}} :
              name \in {s_q, <<"A">>, <<"a">>}}
    /\ pc \in {"ask", "update"}
    /\ next = {}
    /\ todo = {"A"}
    /\ value = None
    /\ i = 0
    /\ calls = {}
    /\ error = None
    /\ segs = <<>>
    /\ result = None

\* is_updateable(resource_id, resources, stack_name), whose state lookup
\* leaves the resource as looked_up says; the caller goes on to
\* update_resource when the answer is True
IsUpdateable ==
    /\ pc = "ask"
    /\ \E resource_id \in todo :
          /\ result' = Bool(is_updateable(resource_id))
          /\ \E uid \in short_uids :
                resource_map' =
                   [resource_map EXCEPT
                       ![resource_id] =
                          IF is_deployable_resource(@) THEN looked_up(@, uid) ELSE @]
    /\ pc' = IF result' = Bool(TRUE) THEN "update" ELSE "declined"
    /\ UNCHANGED <<stack_name, region, stack, stack_resources, provider,
                   i, next, todo, calls, error, value, segs>>

\* update_resource(resource_id, resources, stack_name)
Update ==
    /\ pc = "update"
    /\ \E resource_id \in todo :
          \E oks \in [1..2 -> BOOLEAN] :
             /\ calls' = update_resource(resource_id, oks, Run(resource_id)).calls
             /\ error' = update_resource(resource_id, oks, Run(resource_id)).error
    /\ pc' = IF error' # None THEN "raised" ELSE "updated"
    /\ todo' = {}
    /\ UNCHANGED <<stack_name, region, stack, stack_resources, resource_map,
                   provider, i, next, value, segs, result>>

NextUpdate ==
    \/ IsUpdateable
    \/ Update

SpecUpdate == InitUpdate /\ [][NextUpdate]_vars

\* is_updateable answers True only for a deployable, deployed resource of a
\* type that can be updated
UpdateableOnlyIfDeployed ==
    result = Bool(TRUE) =>
        /\ is_deployable_resource(resource_map["A"])
        /\ is_deployed("A")
        /\ get_resource_type(resource_map["A"]) \in UPDATEABLE_RESOURCES

\* update_resource on a resource of another type calls nothing and raises
\* nothing
OtherTypesUntouched ==
    get_resource_type(resource_map["A"]) \notin UPDATEABLE_RESOURCES =>
        calls = {} /\ error = None /\ pc # "raised"

\* C32 as claimed: is_updateable is true only for a deployable, deployed
\* resource of an updatable type; update_resource on a resource of another
\* type calls nothing and raises nothing; and no resource that is not
\* deployed is updated.
C32_UpdatesOnlyDeployed ==
    /\ UpdateableOnlyIfDeployed
    /\ OtherTypesUntouched
    /\ \A call \in calls : is_deployed(call.id)

\* C32, amended: is_updateable is true only for a deployable, deployed
\* resource of an updatable type, and update_resource on a resource of
\* another type calls nothing and raises nothing.  update_resource itself
\* does not ask whether the resource is deployed: for a Lambda::Function it
\* calls the provider whatever its state, so that only a caller that
\* updates after is_updateable answered True never updates a resource that
\* is not deployed.
C32_AskedUpdatesOnlyDeployed ==
    /\ UpdateableOnlyIfDeployed
    /\ OtherTypesUntouched
    /\ result = Bool(TRUE) => \A call \in calls : is_deployed(call.id)

\* the function A is deployed, is_updateable answered True and
\* update_resource updated its code and its configuration
C32_Witness ==
    /\ pc = "updated"
    /\ result = Bool(TRUE)
    /\ \E call \in calls : call.function = "update_function_code" /\ call.ok
    /\ \E call \in calls : call.function = "update_function_configuration" /\ call.ok

-----------------------------------------------------------------------------
(* The outcome of deploy_template, checked under Spec *)

\* C33 as claimed: deploy_template ends with the report that follows its
\* loop only if a deployable resource is not deployed at that moment; a run
\* in which every deployable resource is deployed, be it in the last pass,
\* ends without it.
C33_ExhaustedOnlyIfPending ==
    pc = "exhausted" => \E id \in Deployable : ~is_deployed(id)

\* the create action of the resource ran in a pass and every provider call
\* it made succeeded
CreatedIn(id, pass) ==
    /\ \E call \in calls : call.id = id /\ call.iter = pass
    /\ \A call \in calls : call.id = id /\ call.iter = pass => call.ok

\* C34 as claimed: a resource whose create action completed successfully in
\* a pass of deploy_template is in the ready set of no later pass, whatever
\* its type.
C34_CreatedAtMostOnce ==
    [][pc = "compute" =>
          \A id \in next' : \A pass \in 0..(i - 1) : ~CreatedIn(id, pass)]_vars

\* the dependencies of a resource that are not deployable
NotDeployableDependencies(id) ==
    {other_id \in get_resource_dependencies(id) :
        ~is_deployable_resource(resource_map[other_id])}

\* C35: a dependency that is not deployable never blocks: a deployable
\* resource that is not deployed and whose deployable dependencies are all
\* deployed is in the ready set, whatever its other dependencies.
C35_NotDeployableNeverBlocks ==
    [][pc = "compute" =>
          \A id \in Deployable :
             /\ ~is_deployed(id)
             /\ \A other_id \in get_resource_dependencies(id)
                                  \ NotDeployableDependencies(id) :
                   is_deployed(other_id)
             => id \in next']_vars

\* the ready set just computed holds a resource that depends on one that is
\* not deployable, and which is not deployed
C35_Witness ==
    /\ pc = "deploy"
    /\ todo = next
    /\ \E id \in next :
          \E other_id \in NotDeployableDependencies(id) : ~is_deployed(other_id)

====
